---- MODULE Spec2Model ----
(***************************************************************************)
(* Voice engine of the SF2 AudioWorklet synthesizer (src/src/sf2-processor.js, *)
(* first Sf2Processor definition, lines 1-445) over the envelope state      *)
(* machines of the WebAssembly DSP layer (src/src/dsp.c).                   *)
(*                                                                         *)
(* Spec is the processor: messages, voice pool and rendered frames, and     *)
(* ControllerSpec the same processor under every kind of controller field.  *)
(* Further specifications drive one unit through its own interface:         *)
(* EnvSpec one envelope (create, setFromSf2, noteOn, noteOff, next),        *)
(* PlayheadSpec the cursor of one voice (advancePos), Sf2Spec the resolver  *)
(* of a parsed SoundFont (buildRegionsForPreset), RiffSpec the parser of a  *)
(* SoundFont file's bytes (parseSF2), SynthSpec the pool played on regions  *)
(* that may lack sample data, DspSpec the loading of the DSP module and of  *)
(* the worklet module, CallsSpec repeated builds of regions from one bank,  *)
(* PcmSpec the decoding of 16-bit samples (int16ToFloat32), ReadSpec the    *)
(* sample read of a voice made from a resolved region, TwinsSpec the        *)
(* JavaScript envelopes beside the C envelopes, LoaderSpec initDSP calls    *)
(* that overlap, MidiSpec the scheduler of the MIDI timer worker            *)
(* (src/unnamed/part_002), LengthsSpec the parser on chunks of unusual      *)
(* declared lengths, and RootKeySpec the resolver on zones that carry an    *)
(* overridingRootKey generator.                                             *)
(*                                                                         *)
(* Numbers.  The code computes in IEEE doubles; the model computes in exact *)
(* rationals <<n, d>> (d > 0, reduced).  Time is counted in units of        *)
(* 1/102400 s, in which 2^(tc/1200) s (tc a multiple of 1200, >= -14400),   *)
(* the release floors 0.06 s and 0.02 s and the sample period 1/50 s are    *)
(* all whole numbers.  The volume envelope level is kept as log10(level),   *)
(* so that exp(lerp(log a, log b, x)) is a linear interpolation; the linear *)
(* level 0 is the distinguished value Zero.                                 *)
(***************************************************************************)
EXTENDS Integers, Sequences, FiniteSets, TLC

VARIABLES
    regions,          \* this.regions: the current preset's regions
    voices,           \* this.voices: the active pool, in array order
    cc7Volume, cc10Pan, cc11Expression,
    inbox,            \* messages posted to the port and not yet handled
    frame,            \* frames of the current block already rendered
    nextId,           \* the id the next voice object gets
    presetId,         \* nextId at the time the current preset was installed
    sent,             \* messages posted so far
    last,             \* what the processor did last
    envelope,         \* an envelope of the DSP layer, driven through its API
    playhead,         \* a voice's sample cursor, driven through advancePos
    sf2,              \* a parsed SoundFont and what the resolver returned
    riff,             \* a SoundFont file's bytes and what parseSF2 made of them
    synth,            \* a preset whose regions may lack sample data, and the pool played on it
    dsp,              \* the DSP wrapper's module and flag, and the worklet module that needs them
    calls,            \* a bank, its sample pool, and the last two builds of regions from it
    pcm,              \* a slice of 16-bit samples and its decoding
    cursor,           \* a voice made from a resolved region: its cursor and what the frame read
    twins,            \* a JavaScript envelope and a C envelope, given the same calls
    loader,           \* the DSP wrapper's module and flag, and the initDSP calls under way
    midi              \* the MIDI timer worker: a song, its tracks' positions, the clock and what was posted

vars == <<regions, voices, cc7Volume, cc10Pan, cc11Expression,
          inbox, frame, nextId, presetId, sent, last, envelope, playhead, sf2,
          riff,
          synth,
          dsp,
          calls,
          pcm,
          cursor,
          twins,
          loader,
          midi>>

\* the processor's own state, and the units exercised on their own
processor == <<regions, voices, cc7Volume, cc10Pan, cc11Expression,
               inbox, frame, nextId, presetId, sent, last>>
units == <<envelope, playhead, sf2, riff, synth, dsp, calls, pcm, cursor, twins, loader, midi>>

\* ------------------------------------------------------------------ bounds
\* this.maxVoices: 64 in the constructor, scaled down for the model.
maxVoices == 2
\* Frames per render quantum (outL.length; 128 in a browser).
BlockSize == 2
\* Messages posted to the port over a run.
MaxSent == 4
\* Messages waiting in the port's queue.
MaxInbox == 2

\* ------------------------------------------------------------------ numbers
\* An absent value (null or undefined) is the empty tuple; a present scalar x
\* that may be absent is written <<x>>.
Null == <<>>

Abs(x) == IF x < 0 THEN -x ELSE x

RECURSIVE GCD(_, _)
GCD(a, b) == IF b = 0 THEN a ELSE GCD(b, a % b)

Rat(n, d) ==
    LET s == IF d < 0 THEN -1 ELSE 1
        g == GCD(Abs(n), Abs(d))
    IN  <<(s * n) \div g, (s * d) \div g>>

RInt(k) == <<k, 1>>
RAdd(a, b) == Rat(a[1] * b[2] + b[1] * a[2], a[2] * b[2])
RSub(a, b) == Rat(a[1] * b[2] - b[1] * a[2], a[2] * b[2])
RMul(a, b) == Rat(a[1] * b[1], a[2] * b[2])
RLess(a, b) == a[1] * b[2] < b[1] * a[2]
RLeq(a, b) == a[1] * b[2] <= b[1] * a[2]
RMin(a, b) == IF RLess(b, a) THEN b ELSE a
RMax(a, b) == IF RLess(a, b) THEN b ELSE a

RECURSIVE Pow2(_)
Pow2(k) == IF k <= 0 THEN 1 ELSE 2 * Pow2(k - 1)

\* Linear levels in the log10 domain: Zero is the level 0, <<n, d>> is 10^(n/d).
Zero == <<0, 0>>
One == <<0, 1>>
\* JavaScript's Infinity, NaN and undefined where a number is expected
Infinity == <<1, 0>>
NaN == <<0, -1>>
Undefined == <<0, -2>>
IsZero(l) == l = Zero
LvLess(a, b) == IF IsZero(b) THEN FALSE ELSE IF IsZero(a) THEN TRUE ELSE RLess(a, b)
LvLeq(a, b) == a = b \/ LvLess(a, b)
LvMax(a, b) == IF LvLess(a, b) THEN b ELSE a
LvMin(a, b) == IF LvLess(b, a) THEN b ELSE a
LvMul(a, b) == IF IsZero(a) \/ IsZero(b) THEN Zero ELSE RAdd(a, b)

\* ------------------------------------------------------------------ time
TimeUnitsPerSec == 1024 * 100
\* AudioWorkletGlobalScope.sampleRate, scaled down so that stages last few frames.
sampleRate == 50
\* #define MIN_VOL_RELEASE_SEC 0.06, MIN_MOD_RELEASE_SEC 0.02, EPS 1e-5
MIN_VOL_RELEASE_SEC == (6 * TimeUnitsPerSec) \div 100
MIN_MOD_RELEASE_SEC == (2 * TimeUnitsPerSec) \div 100
EPS == <<-5, 1>>

\* The timecents at and below which pow(2.0, tc / 1200.0) is 0.0 in a double
\* (2^-1075 is below the smallest subnormal).
TcUnderflow == -1200 * 1075

\* pow(2.0, tc / 1200.0) seconds, in time units; tc a multiple of 1200 in
\* -14400..0, or at most TcUnderflow.
timecentsToSeconds(tc) ==
    IF tc <= TcUnderflow THEN 0 ELSE TimeUnitsPerSec \div Pow2((-tc) \div 1200)

\* pow(2.0, c / 1200.0); c a multiple of 1200, >= 0.
centsToRatio(c) == Pow2(c \div 1200)

\* pow(10, (-cb / 10) / 20), as a level.
cbAttenToLin(cb) == Rat(-cb, 200)

\* pow(clamp(vel, 0, 127) / 127, curve) for curve = 2, as a level: 127 -> 1,
\* 0 -> 0; in between log10 is replaced by the chord through 40 and 127
\* (40 -> 10^-1, the code's value being 10^-1.0035), which keeps the order.
velToLin(vel) ==
    LET x == IF vel < 0 THEN 0 ELSE IF vel > 127 THEN 127 ELSE vel
    IN  IF x = 0 THEN Zero ELSE IF x = 127 THEN One ELSE Rat(2 * (x - 127), 174)

\* ------------------------------------------------------------------ envelopes
\* double dt = 1.0 / env->sr
dt == TimeUnitsPerSec \div sampleRate

\* fmin(1.0, t / d)
Frac(t, d) == RMin(RInt(1), Rat(t, d))

\* a + (b - a) * t, over one denominator
lerp(a, b, t) ==
    Rat(a[1] * b[2] * (t[2] - t[1]) + b[1] * a[2] * t[1], a[2] * b[2] * t[2])

\* exp(log(a) + (log(b) - log(a)) * x) on levels a, b > 0
LogLerp(a, b, x) == lerp(a, b, x)

\* 1.0 - exp(-x * 6.0) for 0 < x < 1, as a level.  The model uses the increasing
\* stand-in 10^(-(1 - x) / (8 x)), which like the code's curve rises from 0 and
\* stays below the peak.
AttackShape(x) == Rat(x[1] - x[2], 8 * x[1])

\* volEnvCreate
volEnvCreate ==
    [stage |-> "idle", level |-> Zero, t |-> 0,
     delay |-> 0, attack |-> TimeUnitsPerSec \div 100, hold |-> 0,
     decay |-> TimeUnitsPerSec \div 10, sustain |-> <<-3, 10>>,
     release |-> TimeUnitsPerSec \div 5, releaseStart |-> Zero]

\* a setFromSf2 that takes the release time as given
volEnvSetFromSf2_NoFloor(env, p) ==
    [env EXCEPT !.delay = timecentsToSeconds(p.delayTc),
                !.attack = timecentsToSeconds(p.attackTc),
                !.hold = timecentsToSeconds(p.holdTc),
                !.decay = timecentsToSeconds(p.decayTc),
                !.release = timecentsToSeconds(p.releaseTc),
                !.sustain = LvMin(One, LvMax(Zero, cbAttenToLin(p.sustainCb)))]

\* createVolEnv(sr).setFromSf2(params) and volEnvSetFromSf2
volEnvSetFromSf2(env, p) ==
    LET rel == timecentsToSeconds(p.releaseTc)
        Max0(x) == IF x < 0 THEN 0 ELSE x
    IN  [env EXCEPT !.delay = Max0(timecentsToSeconds(p.delayTc)),
                    !.attack = Max0(timecentsToSeconds(p.attackTc)),
                    !.hold = Max0(timecentsToSeconds(p.holdTc)),
                    !.decay = Max0(timecentsToSeconds(p.decayTc)),
                    !.release = IF rel < MIN_VOL_RELEASE_SEC
                                THEN MIN_VOL_RELEASE_SEC ELSE rel,
                    !.sustain = LvMin(One, LvMax(Zero, cbAttenToLin(p.sustainCb)))]

\* a noteOn that always waits in the delay stage first
envNoteOn_AlwaysDelay(env, zero) ==
    [env EXCEPT !.stage = "delay", !.t = 0, !.level = zero]

\* volEnvNoteOn / modEnvNoteOn (the level written is the domain's zero)
envNoteOn(env, zero) ==
    [env EXCEPT !.stage = IF env.delay > 0 THEN "delay" ELSE "attack",
                !.t = 0, !.level = zero]

\* a noteOff without the idle guard
envNoteOff_FromIdle(env) ==
    [env EXCEPT !.stage = "release", !.t = 0, !.releaseStart = env.level]

\* volEnvNoteOff / modEnvNoteOff
envNoteOff(env) ==
    IF env.stage = "idle" THEN env
    ELSE [env EXCEPT !.stage = "release", !.t = 0, !.releaseStart = env.level]

\* an attack that always passes through hold
AfterAttack_AlwaysHold(env) == "hold"

\* env->stage = (env->hold > 0) ? 3 : 4
AfterAttack(env) == IF env.hold > 0 THEN "hold" ELSE "decay"

\* volEnvNext: the state after one call (the value returned is its level)
volEnvNext(env) ==
    CASE env.stage = "idle" -> [env EXCEPT !.level = Zero]
      [] env.stage = "delay" ->
            LET t == env.t + dt
            IN  IF t >= env.delay
                THEN [env EXCEPT !.stage = "attack", !.t = 0, !.level = Zero]
                ELSE [env EXCEPT !.t = t, !.level = Zero]
      [] env.stage = "attack" ->
            IF env.attack <= 0
            THEN [env EXCEPT !.level = One, !.stage = AfterAttack(env), !.t = 0]
            ELSE LET t == env.t + dt
                     x == Frac(t, env.attack)
                 IN  IF RLeq(RInt(1), x)
                     THEN [env EXCEPT !.level = One, !.stage = AfterAttack(env), !.t = 0]
                     ELSE [env EXCEPT !.level = AttackShape(x), !.t = t]
      [] env.stage = "hold" ->
            LET t == env.t + dt
            IN  IF t >= env.hold
                THEN [env EXCEPT !.level = One, !.stage = "decay", !.t = 0]
                ELSE [env EXCEPT !.level = One, !.t = t]
      [] env.stage = "decay" ->
            IF env.decay <= 0
            THEN [env EXCEPT !.level = env.sustain, !.stage = "sustain", !.t = 0]
            ELSE LET t == env.t + dt
                     x == Frac(t, env.decay)
                 IN  IF RLeq(RInt(1), x)
                     THEN [env EXCEPT !.level = env.sustain, !.stage = "sustain", !.t = 0]
                     ELSE [env EXCEPT !.level = LogLerp(LvMax(EPS, One),
                                                        LvMax(EPS, env.sustain), x),
                                      !.t = t]
      [] env.stage = "sustain" -> [env EXCEPT !.level = env.sustain]
      [] env.stage = "release" ->
            IF env.release <= 0
            THEN [env EXCEPT !.level = Zero, !.stage = "idle"]
            ELSE LET t == env.t + dt
                     x == Frac(t, env.release)
                 IN  IF RLeq(RInt(1), x)
                     THEN [env EXCEPT !.level = Zero, !.stage = "idle", !.t = t]
                     ELSE [env EXCEPT !.level = LogLerp(LvMax(EPS, env.releaseStart),
                                                        EPS, x),
                                      !.t = t]

\* modEnvCreate
modEnvCreate ==
    [stage |-> "idle", level |-> RInt(0), t |-> 0,
     delay |-> 0, attack |-> TimeUnitsPerSec \div 100, hold |-> 0,
     decay |-> TimeUnitsPerSec \div 10, sustain |-> RInt(0),
     release |-> TimeUnitsPerSec \div 5, releaseStart |-> RInt(0)]

\* createModEnv(sr).setFromSf2(params) and modEnvSetFromSf2; sustain is a
\* fraction, given in the model in thousandths.
modEnvSetFromSf2(env, p) ==
    LET rel == timecentsToSeconds(p.releaseTc)
        Max0(x) == IF x < 0 THEN 0 ELSE x
    IN  [env EXCEPT !.delay = Max0(timecentsToSeconds(p.delayTc)),
                    !.attack = Max0(timecentsToSeconds(p.attackTc)),
                    !.hold = Max0(timecentsToSeconds(p.holdTc)),
                    !.decay = Max0(timecentsToSeconds(p.decayTc)),
                    !.release = IF rel < MIN_MOD_RELEASE_SEC
                                THEN MIN_MOD_RELEASE_SEC ELSE rel,
                    !.sustain = RMin(RInt(1), RMax(RInt(0), Rat(p.sustain, 1000)))]

\* modEnvNext
modEnvNext(env) ==
    CASE env.stage = "idle" -> [env EXCEPT !.level = RInt(0)]
      [] env.stage = "delay" ->
            LET t == env.t + dt
            IN  IF t >= env.delay
                THEN [env EXCEPT !.stage = "attack", !.t = 0, !.level = RInt(0)]
                ELSE [env EXCEPT !.t = t, !.level = RInt(0)]
      [] env.stage = "attack" ->
            IF env.attack <= 0
            THEN [env EXCEPT !.level = RInt(1), !.stage = AfterAttack(env), !.t = 0]
            ELSE LET t == env.t + dt
                     x == Frac(t, env.attack)
                 IN  IF RLeq(RInt(1), x)
                     THEN [env EXCEPT !.level = RInt(1), !.stage = AfterAttack(env),
                                      !.t = 0]
                     ELSE [env EXCEPT !.level = x, !.t = t]
      [] env.stage = "hold" ->
            LET t == env.t + dt
            IN  IF t >= env.hold
                THEN [env EXCEPT !.level = RInt(1), !.stage = "decay", !.t = 0]
                ELSE [env EXCEPT !.level = RInt(1), !.t = t]
      [] env.stage = "decay" ->
            IF env.decay <= 0
            THEN [env EXCEPT !.level = env.sustain, !.stage = "sustain", !.t = 0]
            ELSE LET t == env.t + dt
                     x == Frac(t, env.decay)
                 IN  IF RLeq(RInt(1), x)
                     THEN [env EXCEPT !.level = env.sustain, !.stage = "sustain", !.t = 0]
                     ELSE [env EXCEPT !.level = lerp(RInt(1), env.sustain, x), !.t = t]
      [] env.stage = "sustain" -> [env EXCEPT !.level = env.sustain]
      [] env.stage = "release" ->
            IF env.release <= 0
            THEN [env EXCEPT !.level = RInt(0), !.stage = "idle"]
            ELSE LET t == env.t + dt
                     x == Frac(t, env.release)
                 IN  IF RLeq(RInt(1), x)
                     THEN [env EXCEPT !.level = RInt(0), !.stage = "idle", !.t = t]
                     ELSE [env EXCEPT !.level = lerp(env.releaseStart, RInt(0), x),
                                      !.t = t]

\* ------------------------------------------------------------------ regions
\* Region records as makeRegionFromMerged builds them (the fields the voice
\* engine reads); pan, filter and LFO depths are 0 in every region of the model,
\* so the playback rate of a voice stays at its base rate.
DefaultEnv == [delayTc |-> -12000, attackTc |-> -12000, holdTc |-> -12000,
               decayTc |-> -12000, sustainCb |-> 0, sustain |-> 0,
               releaseTc |-> -12000]

Sample(end, loopStart, loopEnd) ==
    [sampleRate |-> sampleRate, start |-> 0, end |-> end,
     loopStart |-> loopStart, loopEnd |-> loopEnd]

RegionTable ==
    << \* 1: one-shot, every key and velocity (no keyRange / velRange), class 0
       [keyRange |-> Null, velRange |-> Null, exclusiveClass |-> 0,
        sampleModes |-> 0, originalKey |-> 60, overridingRootKey |-> Null,
        scaleTuning |-> 100, coarseTune |-> 0, fineTune |-> 0,
        initialAttenuationCb |-> 0, sample |-> Sample(3, 0, 3),
        volEnv |-> DefaultEnv, modEnv |-> DefaultEnv],
       \* 2: looping, key 60, loud velocities, class 5, slow decay to -20 dB
       [keyRange |-> <<60, 60>>, velRange |-> <<64, 127>>, exclusiveClass |-> 5,
        sampleModes |-> 1, originalKey |-> 60, overridingRootKey |-> Null,
        scaleTuning |-> 100, coarseTune |-> 0, fineTune |-> 0,
        initialAttenuationCb |-> 100, sample |-> Sample(4, 1, 3),
        volEnv |-> [DefaultEnv EXCEPT !.decayTc = -6000, !.sustainCb = 200],
        modEnv |-> [DefaultEnv EXCEPT !.sustain = 500]],
       \* 3: loop until release then tail, key 72, class 5, sustain below EPS
       [keyRange |-> <<72, 72>>, velRange |-> Null, exclusiveClass |-> 5,
        sampleModes |-> 3, originalKey |-> 72, overridingRootKey |-> <<60>>,
        scaleTuning |-> 100, coarseTune |-> 0, fineTune |-> 0,
        initialAttenuationCb |-> 0, sample |-> Sample(5, 1, 3),
        volEnv |-> [DefaultEnv EXCEPT !.sustainCb = 1200],
        modEnv |-> DefaultEnv],
       \* 4: looping, keys 61..72, class 7
       [keyRange |-> <<61, 72>>, velRange |-> Null, exclusiveClass |-> 7,
        sampleModes |-> 1, originalKey |-> 60, overridingRootKey |-> Null,
        scaleTuning |-> 100, coarseTune |-> 0, fineTune |-> 0,
        initialAttenuationCb |-> 200, sample |-> Sample(4, 0, 4),
        volEnv |-> DefaultEnv, modEnv |-> DefaultEnv],
       \* 5: one-shot, every key, class 0, slow attack
       [keyRange |-> <<0, 127>>, velRange |-> <<0, 127>>, exclusiveClass |-> 0,
        sampleModes |-> 0, originalKey |-> 60, overridingRootKey |-> Null,
        scaleTuning |-> 100, coarseTune |-> 0, fineTune |-> 0,
        initialAttenuationCb |-> 0, sample |-> Sample(4, 0, 4),
        volEnv |-> [DefaultEnv EXCEPT !.attackTc = -6000],
        modEnv |-> DefaultEnv] >>

\* The regions field of a setPreset message: a list of indices into RegionTable,
\* or absent.
Presets == {<< <<1, 2, 5>> >>, << <<4, 3, 2>> >>, Null}
Notes == {60, 72}
NoteOns == {<<60, 127>>, <<60, 40>>, <<72, 127>>}

\* ------------------------------------------------------------------ voices
\* regionBaseRate, totalCents
totalCents(region, midiNote) ==
    LET root == IF region.overridingRootKey # Null THEN region.overridingRootKey[1]
                ELSE region.originalKey
        keyTrackCents == (midiNote - root) * region.scaleTuning
        tuneCents == region.coarseTune * 100 + region.fineTune
    IN  keyTrackCents + tuneCents

\* regionBaseRate
regionBaseRate(region, midiNote, outSr) ==
    centsToRatio(totalCents(region, midiNote)) * (region.sample.sampleRate \div outSr)

\* makeVoice; id is the model's name for the object created
makeVoice(r, note, velocity, id) ==
    LET region == RegionTable[r]
        sample == region.sample
        baseRate == regionBaseRate(region, note, sampleRate)
    IN  [id |-> id, note |-> note, velocity |-> velocity, region |-> r,
         pos |-> sample.start, baseRate |-> baseRate, rate |-> baseRate,
         start |-> sample.start, end |-> sample.end,
         loopStart |-> sample.loopStart, loopEnd |-> sample.loopEnd,
         looping |-> region.sampleModes \in {1, 3},
         loopUntilReleaseThenTail |-> region.sampleModes = 3,
         inReleaseTail |-> FALSE,
         baseGain |-> LvMul(velToLin(velocity),
                            cbAttenToLin(region.initialAttenuationCb)),
         volEnv |-> envNoteOn(volEnvSetFromSf2(volEnvCreate, region.volEnv), Zero),
         modEnv |-> envNoteOn(modEnvSetFromSf2(modEnvCreate, region.modEnv), RInt(0)),
         exclusiveClass |-> region.exclusiveClass,
         finished |-> FALSE]

\* The object createVolEnv returns has the properties ptr, setFromSf2, noteOn,
\* noteOff, next and destroy; the envelope's stage and level live in the
\* VolEnv struct behind ptr.  Reading any other property yields undefined.
createVolEnv == {"ptr", "setFromSf2", "noteOn", "noteOff", "next", "destroy"}

\* v.volEnv.level and v.volEnv.stage as the processor reads them
volEnvLevel(v) == IF "level" \in createVolEnv THEN v.volEnv.level ELSE Undefined
volEnvStage(v) == IF "stage" \in createVolEnv THEN v.volEnv.stage ELSE "undefined"

\* JavaScript's a * b and a < b on levels, undefined, NaN and Infinity
JsTimes(a, b) == IF a \in {Undefined, NaN} \/ b \in {Undefined, NaN} THEN NaN
                 ELSE LvMul(a, b)
JsLess(a, b) == IF a \in {Undefined, NaN} \/ b \in {Undefined, NaN} THEN FALSE
                ELSE IF a = Infinity THEN FALSE
                ELSE IF b = Infinity THEN TRUE
                ELSE LvLess(a, b)

\* the voice's release: both envelopes' noteOff, and the tail flag of mode 3
ReleaseVoice(v) ==
    [v EXCEPT !.volEnv = envNoteOff(@), !.modEnv = envNoteOff(@),
              !.inReleaseTail = IF v.loopUntilReleaseThenTail THEN TRUE ELSE @]

Splice(pool, i) == SubSeq(pool, 1, i - 1) \o SubSeq(pool, i + 1, Len(pool))

\* pool[i] = v
Store(pool, i, v) == SubSeq(pool, 1, i - 1) \o <<v>> \o SubSeq(pool, i + 1, Len(pool))

\* pickRegions
pickRegions_ExclusiveHi(regs, note, velocity) ==
    SelectSeq(regs, LAMBDA r :
        LET kr == IF RegionTable[r].keyRange = Null THEN <<0, 127>>
                  ELSE RegionTable[r].keyRange
            vr == IF RegionTable[r].velRange = Null THEN <<0, 127>>
                  ELSE RegionTable[r].velRange
        IN  note >= kr[1] /\ note < kr[2] /\ velocity >= vr[1] /\ velocity < vr[2])

InRange(range, x) ==
    LET rg == IF range = Null THEN <<0, 127>> ELSE range
    IN  x >= rg[1] /\ x <= rg[2]

pickRegions(regs, note, velocity) ==
    SelectSeq(regs, LAMBDA r : /\ InRange(RegionTable[r].keyRange, note)
                               /\ InRange(RegionTable[r].velRange, velocity))

\* chokeExclusive, were it to stop at the first voice of the class
chokeExclusive_StopsAtFirst(pool, excl) ==
    LET first == {i \in DOMAIN pool : pool[i].exclusiveClass = excl}
        i == IF first = {} THEN 0 ELSE CHOOSE k \in first : \A j \in first : k <= j
    IN  IF i = 0 THEN pool ELSE Store(pool, i, ReleaseVoice(pool[i]))

\* chokeExclusive
RECURSIVE chokeExclusive(_, _)
chokeExclusive(pool, excl) ==
    IF pool = <<>> THEN <<>>
    ELSE <<IF Head(pool).exclusiveClass = excl THEN ReleaseVoice(Head(pool))
           ELSE Head(pool)>> \o chokeExclusive(Tail(pool), excl)

\* onMsg (noteOn), first loop: chokeExclusive for every matching region of a class
RECURSIVE ChokeLoop(_, _)
ChokeLoop(pool, matching) ==
    IF matching = <<>> THEN pool
    ELSE LET excl == RegionTable[Head(matching)].exclusiveClass
         IN  ChokeLoop(IF excl # 0 THEN chokeExclusive(pool, excl) ELSE pool,
                       Tail(matching))

\* ensurePolyphony: the index it splices out (1-based), 0 when the pool has room
RECURSIVE MinScan(_, _, _, _)
MinScan(pool, i, minVal, minIdx) ==
    IF i > Len(pool) THEN minIdx
    ELSE LET loud == JsTimes(volEnvLevel(pool[i]), pool[i].baseGain)
         IN  IF JsLess(loud, minVal) THEN MinScan(pool, i + 1, loud, i)
             ELSE MinScan(pool, i + 1, minVal, minIdx)

StealIndex_OffByOne(pool) ==
    IF Len(pool) <= maxVoices THEN 0 ELSE MinScan(pool, 1, Infinity, 1)

StealIndex(pool) == IF Len(pool) < maxVoices THEN 0 ELSE MinScan(pool, 1, Infinity, 1)

ensurePolyphony_Release(pool) ==
    IF StealIndex(pool) = 0 THEN pool
    ELSE Store(pool, StealIndex(pool), ReleaseVoice(pool[StealIndex(pool)]))

ensurePolyphony(pool) ==
    IF StealIndex(pool) = 0 THEN pool ELSE Splice(pool, StealIndex(pool))

\* onMsg (noteOn), second loop: ensurePolyphony, then push makeVoice.  The
\* result carries the pool, its largest size on the way, and every steal (the
\* victim and the pool it was taken from).
RECURSIVE AllocLoop(_, _, _, _, _)
AllocLoop(acc, matching, note, velocity, id) ==
    IF matching = <<>> THEN acc
    ELSE LET k == StealIndex(acc.pool)
             pool == Append(ensurePolyphony(acc.pool),
                            makeVoice(Head(matching), note, velocity, id))
         IN  AllocLoop([pool |-> pool,
                        peak |-> IF Len(pool) > acc.peak THEN Len(pool) ELSE acc.peak,
                        steals |-> IF k = 0 THEN acc.steals
                                   ELSE Append(acc.steals,
                                               [victim |-> acc.pool[k].id,
                                                pool |-> acc.pool])],
                       Tail(matching), note, velocity, id + 1)

\* advancePos, were the end test strict
advancePos_StrictEnd(v) ==
    LET pos == v.pos + v.rate
        loopLen == v.loopEnd - v.loopStart
    IN  IF v.looping /\ ~v.inReleaseTail
        THEN IF pos >= v.loopEnd
             THEN IF loopLen > 1
                  THEN [v EXCEPT !.pos = v.loopStart + ((pos - v.loopStart) % loopLen)]
                  ELSE [v EXCEPT !.pos = v.loopStart]
             ELSE [v EXCEPT !.pos = pos]
        ELSE IF pos > v.end THEN [v EXCEPT !.pos = pos, !.finished = TRUE]
             ELSE [v EXCEPT !.pos = pos]

\* advancePos, were the wrap a single subtraction of the loop length
advancePos_SubtractsOnce(v) ==
    LET pos == v.pos + v.rate
        loopLen == v.loopEnd - v.loopStart
    IN  IF v.looping /\ ~v.inReleaseTail
        THEN IF pos >= v.loopEnd
             THEN IF loopLen > 1
                  THEN [v EXCEPT !.pos = pos - loopLen]
                  ELSE [v EXCEPT !.pos = v.loopStart]
             ELSE [v EXCEPT !.pos = pos]
        ELSE IF pos >= v.end THEN [v EXCEPT !.pos = pos, !.finished = TRUE]
             ELSE [v EXCEPT !.pos = pos]

\* advancePos, were the release tail to go on looping
advancePos_IgnoresTail(v) ==
    LET pos == v.pos + v.rate
        loopLen == v.loopEnd - v.loopStart
    IN  IF v.looping
        THEN IF pos >= v.loopEnd
             THEN IF loopLen > 1
                  THEN [v EXCEPT !.pos = v.loopStart + ((pos - v.loopStart) % loopLen)]
                  ELSE [v EXCEPT !.pos = v.loopStart]
             ELSE [v EXCEPT !.pos = pos]
        ELSE IF pos >= v.end THEN [v EXCEPT !.pos = pos, !.finished = TRUE]
             ELSE [v EXCEPT !.pos = pos]

\* advancePos
advancePos(v) ==
    LET pos == v.pos + v.rate
        effectiveLooping == v.looping /\ ~v.inReleaseTail
        loopLen == v.loopEnd - v.loopStart
    IN  IF effectiveLooping
        THEN IF pos >= v.loopEnd
             THEN IF loopLen > 1
                  THEN [v EXCEPT !.pos = v.loopStart + ((pos - v.loopStart) % loopLen)]
                  ELSE [v EXCEPT !.pos = v.loopStart]
             ELSE [v EXCEPT !.pos = pos]
        ELSE IF pos >= v.end THEN [v EXCEPT !.pos = pos, !.finished = TRUE]
             ELSE [v EXCEPT !.pos = pos]

\* process, the body of the voice loop for a voice that is kept: the modulation
\* envelope, the rate (pitch depths are 0), the volume envelope, the cursor
RenderVoice(v) ==
    advancePos([v EXCEPT !.modEnv = modEnvNext(@), !.rate = v.baseRate,
                         !.volEnv = volEnvNext(@)])

\* process, the drop check of the voice loop
Dropped(v) == v.finished \/ volEnvStage(v) = "idle"

\* process, were the voice loop to run from index 0 up: after a splice the
\* voice that moved into the freed index is passed over
RECURSIVE ForwardLoop(_, _, _)
ForwardLoop(pool, i, out) ==
    IF i > Len(pool) THEN [pool |-> pool, out |-> out]
    ELSE IF Dropped(pool[i]) THEN ForwardLoop(Splice(pool, i), i + 1, out)
         ELSE ForwardLoop(Store(pool, i, RenderVoice(pool[i])), i + 1,
                          out \cup {pool[i].id})

VoiceLoop_Forward(pool, vi, out) == ForwardLoop(pool, 1, out)

\* process, one output frame: for (vi = voices.length - 1; vi >= 0; vi--)
RECURSIVE VoiceLoop(_, _, _)
VoiceLoop(pool, vi, out) ==
    IF vi < 1 THEN [pool |-> pool, out |-> out]
    ELSE IF Dropped(pool[vi]) THEN VoiceLoop(Splice(pool, vi), vi - 1, out)
         ELSE VoiceLoop(Store(pool, vi, RenderVoice(pool[vi])), vi - 1,
                        out \cup {pool[vi].id})

\* ------------------------------------------------------------------ messages
Msg(type, note, velocity, regs, c7, c10, c11) ==
    [type |-> type, note |-> note, velocity |-> velocity, regions |-> regs,
     cc7Volume |-> c7, cc10Pan |-> c10, cc11Expression |-> c11]

Messages ==
    {Msg("setPreset", 0, 0, p, Null, Null, Null) : p \in Presets}
    \cup {Msg("noteOn", k[1], k[2], Null, Null, Null, Null) : k \in NoteOns}
    \cup {Msg("noteOff", n, 0, Null, Null, Null, Null) : n \in Notes}
    \cup {Msg("allNotesOff", 0, 0, Null, Null, Null, Null)}
    \cup {Msg("setControllers", 0, 0, Null, <<200>>, <<-3>>, Null)}

\* What the processor did last: the handler or frame, the message handled, and
\* for a noteOn the regions matched, the pool's largest size while allocating,
\* the steals and the ids created; for a setPreset the size of the pool it
\* cleared (as peak); for a frame the voices mixed into it and the size of
\* the pool it started with (as peak).
Did(op, msg, matching, peak, steals, created, out) ==
    [op |-> op, msg |-> msg, matching |-> matching, peak |-> peak,
     steals |-> steals, created |-> created, out |-> out]

NoMsg == Msg("none", 0, 0, Null, Null, Null, Null)

\* ------------------------------------------------------------------ the processor
\* constructor
Constructed ==
    /\ regions = <<>>
    /\ voices = <<>>
    /\ cc7Volume = 100
    /\ cc10Pan = 64
    /\ cc11Expression = 127
    /\ inbox = <<>>
    /\ frame = 0
    /\ nextId = 1
    /\ presetId = 1
    /\ sent = 0
    /\ last = Did("init", NoMsg, <<>>, 0, <<>>, {}, {})

Init ==
    /\ Constructed
    /\ envelope = Null
    /\ playhead = Null
    /\ sf2 = Null
    /\ riff = Null
    /\ synth = Null
    /\ dsp = Null
    /\ calls = Null
    /\ pcm = Null
    /\ cursor = Null
    /\ twins = Null
    /\ loader = Null
    /\ midi = Null

\* port.postMessage by a collaborator: the message joins the port's queue.  The
\* collaborators post a setPreset before anything else (App.jsx triggerNoteOn,
\* guide/driver.js), so the first message is one.
Send(m) ==
    /\ sent < MaxSent
    /\ sent = 0 => m.type = "setPreset"
    /\ Len(inbox) < MaxInbox
    /\ inbox' = Append(inbox, m)
    /\ sent' = sent + 1
    /\ UNCHANGED units
    /\ UNCHANGED <<regions, voices, cc7Volume, cc10Pan, cc11Expression, frame,
                   nextId, presetId, last>>

\* port.onmessage, were a message handled while a block is being rendered
Delivered_MidBlock(type) ==
    /\ inbox # <<>>
    /\ Head(inbox).type = type
    /\ inbox' = Tail(inbox)

\* port.onmessage: the event loop hands over the oldest queued message, and
\* only between two calls of process (both run to completion on one thread)
Delivered(type) ==
    /\ frame = 0
    /\ inbox # <<>>
    /\ Head(inbox).type = type
    /\ inbox' = Tail(inbox)

\* this.voices.length = 0, were it left out
clearVoices_Keeps(pool) == pool

\* this.voices.length = 0
clearVoices(pool) == <<>>

\* onMsg, msg.type === "setPreset"
OnSetPreset ==
    /\ Delivered("setPreset")
    /\ regions' = IF Head(inbox).regions = Null THEN <<>> ELSE Head(inbox).regions[1]
    /\ voices' = clearVoices(voices)
    /\ presetId' = nextId
    /\ last' = Did("setPreset", Head(inbox), <<>>, Len(voices), <<>>, {}, {})
    /\ UNCHANGED units
    /\ UNCHANGED <<cc7Volume, cc10Pan, cc11Expression, frame, nextId, sent>>

\* onMsg, msg.type === "noteOn"
NoteOnResult(pool, regs, note, velocity, id) ==
    LET matching == pickRegions(regs, note, velocity)
    IN  IF matching = <<>>
        THEN [pool |-> pool, peak |-> Len(pool), steals |-> <<>>]
        ELSE AllocLoop([pool |-> ChokeLoop(pool, matching), peak |-> Len(pool),
                        steals |-> <<>>],
                       matching, note, velocity, id)

OnNoteOn ==
    /\ Delivered("noteOn")
    /\ LET msg == Head(inbox)
           matching == pickRegions(regions, msg.note, msg.velocity)
           res == NoteOnResult(voices, regions, msg.note, msg.velocity, nextId)
       IN  /\ voices' = res.pool
           /\ nextId' = nextId + Len(matching)
           /\ last' = Did("noteOn", msg, matching, res.peak, res.steals,
                          nextId..(nextId + Len(matching) - 1), {})
    /\ UNCHANGED units
    /\ UNCHANGED <<regions, cc7Volume, cc10Pan, cc11Expression, frame, presetId,
                   sent>>

\* onMsg, msg.type === "noteOff"
noteOff_IgnoresNote(pool, note) ==
    IF pool = <<>> THEN <<>>
    ELSE <<ReleaseVoice(pool[1])>> \o SubSeq(pool, 2, Len(pool))

RECURSIVE noteOff(_, _)
noteOff(pool, note) ==
    IF pool = <<>> THEN <<>>
    ELSE <<IF Head(pool).note = note THEN ReleaseVoice(Head(pool)) ELSE Head(pool)>>
         \o noteOff(Tail(pool), note)

OnNoteOff ==
    /\ Delivered("noteOff")
    /\ voices' = noteOff(voices, Head(inbox).note)
    /\ last' = Did("noteOff", Head(inbox), <<>>, 0, <<>>, {}, {})
    /\ UNCHANGED units
    /\ UNCHANGED <<regions, cc7Volume, cc10Pan, cc11Expression, frame, nextId,
                   presetId, sent>>

\* onMsg, msg.type === "allNotesOff"
RECURSIVE allNotesOff(_)
allNotesOff(pool) ==
    IF pool = <<>> THEN <<>>
    ELSE <<ReleaseVoice(Head(pool))>> \o allNotesOff(Tail(pool))

OnAllNotesOff ==
    /\ Delivered("allNotesOff")
    /\ voices' = allNotesOff(voices)
    /\ last' = Did("allNotesOff", Head(inbox), <<>>, 0, <<>>, {}, {})
    /\ UNCHANGED units
    /\ UNCHANGED <<regions, cc7Volume, cc10Pan, cc11Expression, frame, nextId,
                   presetId, sent>>

\* A controller field of a message: absent (Null), the integer n (<<n>>), or
\* <<n, d>>: for d > 0 the number n / d, for d = 0 NaN (n = 0), Infinity
\* (n > 0) or -Infinity (n < 0), for d < 0 no number at all but a string that
\* spells n.  Numbers are below 2^31 in size.
\* Number.isFinite(field)
IsFinite(field) == field # Null /\ (Len(field) = 1 \/ field[2] > 0)

\* field | 0: the fraction is dropped
ToInt32(field) ==
    IF Len(field) = 1 THEN field[1]
    ELSE IF field[1] < 0 THEN -((-field[1]) \div field[2]) ELSE field[1] \div field[2]

\* a handler without the Number.isFinite test: field | 0 is 0 for a missing
\* field, NaN and the infinities, and the number a string spells
Controller_Unguarded(field, old) ==
    IF field = Null \/ (Len(field) = 2 /\ field[2] = 0) THEN 0
    ELSE IF field[1] < 0 THEN 0
    ELSE IF Len(field) = 2 /\ field[2] < 0 THEN (IF field[1] > 127 THEN 127 ELSE field[1])
    ELSE IF ToInt32(field) > 127 THEN 127 ELSE ToInt32(field)

\* onMsg, msg.type === "setControllers": a finite field is truncated and clamped
Controller(field, old) ==
    IF ~IsFinite(field) THEN old
    ELSE IF ToInt32(field) < 0 THEN 0
    ELSE IF ToInt32(field) > 127 THEN 127 ELSE ToInt32(field)

OnSetControllers ==
    /\ Delivered("setControllers")
    /\ cc7Volume' = Controller(Head(inbox).cc7Volume, cc7Volume)
    /\ cc10Pan' = Controller(Head(inbox).cc10Pan, cc10Pan)
    /\ cc11Expression' = Controller(Head(inbox).cc11Expression, cc11Expression)
    /\ last' = Did("setControllers", Head(inbox), <<>>, 0, <<>>, {}, {})
    /\ UNCHANGED units
    /\ UNCHANGED <<regions, voices, frame, nextId, presetId, sent>>

\* process, one iteration of for (let i = 0; i < outL.length; i++); frame counts
\* the frames of the current block already rendered, 0 between two blocks
Process ==
    /\ LET res == VoiceLoop(voices, Len(voices), {})
       IN  /\ voices' = res.pool
           /\ last' = Did("frame", NoMsg, <<>>, Len(voices), <<>>, {}, res.out)
    /\ frame' = (frame + 1) % BlockSize
    /\ UNCHANGED units
    /\ UNCHANGED <<regions, cc7Volume, cc10Pan, cc11Expression, inbox, nextId,
                   presetId, sent>>

Next ==
    \/ \E m \in Messages : Send(m)
    \/ OnSetPreset
    \/ OnNoteOn
    \/ OnNoteOff
    \/ OnAllNotesOff
    \/ OnSetControllers
    \/ Process

Spec == Init /\ [][Next]_vars

\* ------------------------------------------------------------------ the controllers
\* The processor under setControllers messages of every kind of field, with a
\* preset and notes to give it regions and voices.  Messages are handled in
\* the order they are posted, so one at a time is posted here; the notes and
\* presets posted are counted in sent.
Fields ==
    {Null, <<64>>, <<200>>, <<-3>>, <<127, 2>>, <<-1, 2>>, <<255, 2>>,
     <<0, 0>>, <<1, 0>>, <<-1, 0>>, <<64, -1>>}

ControllerMessages ==
    {Msg("setControllers", 0, 0, Null, f, Null, Null) : f \in Fields}
    \cup {Msg("setControllers", 0, 0, Null, Null, f, <<0, 0>>) :
              f \in {<<127, 2>>, <<200>>, <<64, -1>>}}
    \cup {Msg("setControllers", 0, 0, Null, <<1, 0>>, <<-3>>, f) :
              f \in {<<-1, 2>>, <<64>>, Null}}
    \cup {Msg("setPreset", 0, 0, << <<1, 2, 5>> >>, Null, Null, Null),
          Msg("noteOn", 60, 127, Null, Null, Null, Null)}

ControllerSend(m) ==
    /\ inbox = <<>>
    /\ m.type # "setControllers" => sent < MaxSent
    /\ sent = 0 => m.type = "setPreset"
    /\ inbox' = <<m>>
    /\ sent' = IF m.type = "setControllers" THEN sent ELSE sent + 1
    /\ UNCHANGED units
    /\ UNCHANGED <<regions, voices, cc7Volume, cc10Pan, cc11Expression, frame,
                   nextId, presetId, last>>

ControllerNext ==
    \/ \E m \in ControllerMessages : ControllerSend(m)
    \/ OnSetPreset
    \/ OnNoteOn
    \/ OnSetControllers

ControllerSpec == Init /\ [][ControllerNext]_vars

\* ------------------------------------------------------------------ one envelope
\* The envelope API of the DSP layer on one envelope object: create, then
\* setFromSf2 (before the first note, as makeVoice calls it) and noteOn,
\* noteOff and next in any order.  The record keeps the call made last, the
\* envelope as it was before that call, and the number of noteOn and noteOff
\* calls made.
Envelope(kind, env, call, before, notes) ==
    [kind |-> kind, env |-> env, call |-> call, before |-> before, notes |-> notes]

\* noteOn and noteOff calls made on the envelope over a run.
MaxNotes == 3

\* Generator values handed to setFromSf2: durations of 0 s (underflow), of less
\* than a sample period and of several sample periods; sustain at the peak,
\* below it, and (volume) below EPS.
VolParams ==
    [delayTc : {TcUnderflow, -12000, -6000}, attackTc : {TcUnderflow, -4800},
     holdTc : {TcUnderflow, -6000}, decayTc : {TcUnderflow, -6000},
     sustainCb : {0, 200, 1200}, releaseTc : {TcUnderflow, -6000, -3600}]
ModParams ==
    [delayTc : {TcUnderflow, -12000, -6000}, attackTc : {TcUnderflow, -4800},
     holdTc : {TcUnderflow, -6000}, decayTc : {TcUnderflow, -6000},
     sustain : {0, 500, 1000}, releaseTc : {TcUnderflow, -6000, -3600}]

EnvInit ==
    /\ Constructed
    /\ envelope \in {Envelope("vol", volEnvCreate, "create", volEnvCreate, 0),
                      Envelope("mod", modEnvCreate, "create", modEnvCreate, 0)}
    /\ playhead = Null
    /\ sf2 = Null
    /\ riff = Null
    /\ synth = Null
    /\ dsp = Null
    /\ calls = Null
    /\ pcm = Null
    /\ cursor = Null
    /\ twins = Null
    /\ loader = Null
    /\ midi = Null

VolEnvSetFromSf2(p) ==
    /\ envelope.kind = "vol"
    /\ envelope.call = "create"
    /\ envelope' = Envelope("vol", volEnvSetFromSf2(envelope.env, p), "setFromSf2",
                            envelope.env, envelope.notes)
    /\ UNCHANGED <<processor, playhead, sf2, riff, synth, dsp, calls, pcm, cursor, twins, loader, midi>>

ModEnvSetFromSf2(p) ==
    /\ envelope.kind = "mod"
    /\ envelope.call = "create"
    /\ envelope' = Envelope("mod", modEnvSetFromSf2(envelope.env, p), "setFromSf2",
                            envelope.env, envelope.notes)
    /\ UNCHANGED <<processor, playhead, sf2, riff, synth, dsp, calls, pcm, cursor, twins, loader, midi>>

EnvNoteOn ==
    /\ envelope.notes < MaxNotes
    /\ envelope' = Envelope(envelope.kind,
                            envNoteOn(envelope.env,
                                      IF envelope.kind = "vol" THEN Zero ELSE RInt(0)),
                            "noteOn", envelope.env, envelope.notes + 1)
    /\ UNCHANGED <<processor, playhead, sf2, riff, synth, dsp, calls, pcm, cursor, twins, loader, midi>>

EnvNoteOff ==
    /\ envelope.notes < MaxNotes
    /\ envelope' = Envelope(envelope.kind, envNoteOff(envelope.env), "noteOff",
                            envelope.env, envelope.notes + 1)
    /\ UNCHANGED <<processor, playhead, sf2, riff, synth, dsp, calls, pcm, cursor, twins, loader, midi>>

EnvNext ==
    /\ envelope' = Envelope(envelope.kind,
                            IF envelope.kind = "vol" THEN volEnvNext(envelope.env)
                            ELSE modEnvNext(envelope.env),
                            "next", envelope.env, envelope.notes)
    /\ UNCHANGED <<processor, playhead, sf2, riff, synth, dsp, calls, pcm, cursor, twins, loader, midi>>

EnvNextStep ==
    \/ \E p \in VolParams : VolEnvSetFromSf2(p)
    \/ \E p \in ModParams : ModEnvSetFromSf2(p)
    \/ EnvNoteOn
    \/ EnvNoteOff
    \/ EnvNext

EnvSpec == EnvInit /\ [][EnvNextStep]_vars

\* ------------------------------------------------------------------ the JavaScript envelopes
\* VolEnvJS and ModEnvJS, the envelopes in JavaScript, in the numbers of the
\* C envelopes above; a parameter of setFromSf2 may be absent from the object.
\* new VolEnvJS(sr)
VolEnvJS ==
    [stage |-> "idle", level |-> Zero, t |-> 0, peak |-> One,
     delay |-> 0, attack |-> TimeUnitsPerSec \div 100, hold |-> 0,
     decay |-> TimeUnitsPerSec \div 10, sustain |-> <<-3, 10>>,
     release |-> TimeUnitsPerSec \div 5, releaseStart |-> Zero]

\* p.k ?? d
Param(p, k, d) == IF k \in DOMAIN p THEN p[k] ELSE d

\* Math.max(0, timecentsToSeconds(p.k ?? d))
SecondsOr(p, k, d) ==
    LET s == timecentsToSeconds(Param(p, k, d))
    IN  IF s < 0 THEN 0 ELSE s

\* a VolEnvJS with the release floor of ModEnvJS
VolEnvJS_setFromSf2_ModFloor(env, p) ==
    LET rel == timecentsToSeconds(Param(p, "releaseTc", 0))
        sustainCb == Param(p, "sustainCb", 0)
    IN  [env EXCEPT !.delay = SecondsOr(p, "delayTc", -12000),
                    !.attack = SecondsOr(p, "attackTc", -12000),
                    !.hold = SecondsOr(p, "holdTc", -12000),
                    !.decay = SecondsOr(p, "decayTc", -12000),
                    !.release = IF rel < MIN_MOD_RELEASE_SEC
                                THEN MIN_MOD_RELEASE_SEC ELSE rel,
                    !.sustain = LvMin(One, LvMax(Zero, Rat(-sustainCb, 200)))]

\* VolEnvJS.setFromSf2
VolEnvJS_setFromSf2(env, p) ==
    LET rel == timecentsToSeconds(Param(p, "releaseTc", 0))
        sustainCb == Param(p, "sustainCb", 0)
    IN  [env EXCEPT !.delay = SecondsOr(p, "delayTc", -12000),
                    !.attack = SecondsOr(p, "attackTc", -12000),
                    !.hold = SecondsOr(p, "holdTc", -12000),
                    !.decay = SecondsOr(p, "decayTc", -12000),
                    !.release = IF rel < (6 * TimeUnitsPerSec) \div 100
                                THEN (6 * TimeUnitsPerSec) \div 100 ELSE rel,
                    !.sustain = LvMin(One, LvMax(Zero, Rat(-sustainCb, 200)))]

\* VolEnvJS.noteOn and ModEnvJS.noteOn (the level written is the domain's 0)
jsNoteOn(env, zero) ==
    [env EXCEPT !.stage = IF env.delay > 0 THEN "delay" ELSE "attack",
                !.t = 0, !.level = zero]

\* VolEnvJS.noteOff and ModEnvJS.noteOff
jsNoteOff(env) ==
    IF env.stage = "idle" THEN env
    ELSE [env EXCEPT !.stage = "release", !.t = 0, !.releaseStart = env.level]

\* this.stage = this.hold > 0 ? "hold" : "decay"
jsAfterAttack(env) == IF env.hold > 0 THEN "hold" ELSE "decay"

\* VolEnvJS.next
VolEnvJS_next(env) ==
    CASE env.stage = "idle" -> [env EXCEPT !.level = Zero]
      [] env.stage = "delay" ->
            LET t == env.t + dt
            IN  IF t >= env.delay
                THEN [env EXCEPT !.t = 0, !.stage = "attack", !.level = Zero]
                ELSE [env EXCEPT !.t = t, !.level = Zero]
      [] env.stage = "attack" ->
            IF env.attack <= 0
            THEN [env EXCEPT !.level = env.peak, !.stage = jsAfterAttack(env), !.t = 0]
            ELSE LET t == env.t + dt
                     x == Frac(t, env.attack)
                 IN  IF RLeq(RInt(1), x)
                     THEN [env EXCEPT !.level = env.peak, !.stage = jsAfterAttack(env),
                                      !.t = 0]
                     ELSE [env EXCEPT !.t = t, !.level = LvMul(env.peak, AttackShape(x))]
      [] env.stage = "hold" ->
            LET t == env.t + dt
            IN  IF t >= env.hold
                THEN [env EXCEPT !.level = env.peak, !.stage = "decay", !.t = 0]
                ELSE [env EXCEPT !.level = env.peak, !.t = t]
      [] env.stage = "decay" ->
            IF env.decay <= 0
            THEN [env EXCEPT !.level = env.sustain, !.stage = "sustain", !.t = 0]
            ELSE LET t == env.t + dt
                     x == Frac(t, env.decay)
                 IN  IF RLeq(RInt(1), x)
                     THEN [env EXCEPT !.level = env.sustain, !.stage = "sustain", !.t = 0]
                     ELSE [env EXCEPT !.t = t,
                                      !.level = LogLerp(LvMax(EPS, env.peak),
                                                        LvMax(EPS, env.sustain), x)]
      [] env.stage = "sustain" -> [env EXCEPT !.level = env.sustain]
      [] env.stage = "release" ->
            IF env.release <= 0
            THEN [env EXCEPT !.level = Zero, !.stage = "idle"]
            ELSE LET t == env.t + dt
                     x == Frac(t, env.release)
                 IN  IF RLeq(RInt(1), x)
                     THEN [env EXCEPT !.t = t, !.level = Zero, !.stage = "idle"]
                     ELSE [env EXCEPT !.t = t,
                                      !.level = LogLerp(LvMax(EPS, env.releaseStart),
                                                        EPS, x)]

\* new ModEnvJS(sr)
ModEnvJS ==
    [stage |-> "idle", level |-> RInt(0), t |-> 0,
     delay |-> 0, attack |-> TimeUnitsPerSec \div 100, hold |-> 0,
     decay |-> TimeUnitsPerSec \div 10, sustain |-> RInt(0),
     release |-> TimeUnitsPerSec \div 5, releaseStart |-> RInt(0)]

\* ModEnvJS.setFromSf2; sustain is given in thousandths
ModEnvJS_setFromSf2(env, p) ==
    LET rel == timecentsToSeconds(Param(p, "releaseTc", 0))
        sustain == Param(p, "sustain", 0)
    IN  [env EXCEPT !.delay = SecondsOr(p, "delayTc", -12000),
                    !.attack = SecondsOr(p, "attackTc", -12000),
                    !.hold = SecondsOr(p, "holdTc", -12000),
                    !.decay = SecondsOr(p, "decayTc", -12000),
                    !.release = IF rel < (2 * TimeUnitsPerSec) \div 100
                                THEN (2 * TimeUnitsPerSec) \div 100 ELSE rel,
                    !.sustain = RMin(RInt(1), RMax(RInt(0), Rat(sustain, 1000)))]

\* ModEnvJS.next
ModEnvJS_next(env) ==
    CASE env.stage = "idle" -> [env EXCEPT !.level = RInt(0)]
      [] env.stage = "delay" ->
            LET t == env.t + dt
            IN  IF t >= env.delay
                THEN [env EXCEPT !.t = 0, !.stage = "attack", !.level = RInt(0)]
                ELSE [env EXCEPT !.t = t, !.level = RInt(0)]
      [] env.stage = "attack" ->
            IF env.attack <= 0
            THEN [env EXCEPT !.level = RInt(1), !.stage = jsAfterAttack(env), !.t = 0]
            ELSE LET t == env.t + dt
                     x == Frac(t, env.attack)
                 IN  IF RLeq(RInt(1), x)
                     THEN [env EXCEPT !.level = RInt(1), !.stage = jsAfterAttack(env),
                                      !.t = 0]
                     ELSE [env EXCEPT !.t = t, !.level = x]
      [] env.stage = "hold" ->
            LET t == env.t + dt
            IN  IF t >= env.hold
                THEN [env EXCEPT !.level = RInt(1), !.stage = "decay", !.t = 0]
                ELSE [env EXCEPT !.level = RInt(1), !.t = t]
      [] env.stage = "decay" ->
            IF env.decay <= 0
            THEN [env EXCEPT !.level = env.sustain, !.stage = "sustain", !.t = 0]
            ELSE LET t == env.t + dt
                     x == Frac(t, env.decay)
                 IN  IF RLeq(RInt(1), x)
                     THEN [env EXCEPT !.level = env.sustain, !.stage = "sustain", !.t = 0]
                     ELSE [env EXCEPT !.t = t, !.level = lerp(RInt(1), env.sustain, x)]
      [] env.stage = "sustain" -> [env EXCEPT !.level = env.sustain]
      [] env.stage = "release" ->
            IF env.release <= 0
            THEN [env EXCEPT !.level = RInt(0), !.stage = "idle"]
            ELSE LET t == env.t + dt
                     x == Frac(t, env.release)
                 IN  IF RLeq(RInt(1), x)
                     THEN [env EXCEPT !.t = t, !.level = RInt(0), !.stage = "idle"]
                     ELSE [env EXCEPT !.t = t,
                                      !.level = lerp(env.releaseStart, RInt(0), x)]

\* A JavaScript envelope and a C envelope of the same kind, created for the
\* same sample rate and given the same calls: setFromSf2 with the same six
\* numbers, then noteOn, noteOff and next in any order.  The record keeps the
\* call made last, the two envelopes before it and the number of noteOn and
\* noteOff calls made.
Twins(kind, js, c, call, notes) ==
    [kind |-> kind, js |-> js, c |-> c, call |-> call,
     before |-> [js |-> twins.js, c |-> twins.c], notes |-> notes]

TwinsInit ==
    /\ Constructed
    /\ envelope = Null
    /\ playhead = Null
    /\ sf2 = Null
    /\ riff = Null
    /\ synth = Null
    /\ dsp = Null
    /\ calls = Null
    /\ pcm = Null
    /\ cursor = Null
    /\ loader = Null
    /\ midi = Null
    /\ twins \in {[kind |-> "vol", js |-> VolEnvJS, c |-> volEnvCreate,
                   call |-> "create", before |-> Null, notes |-> 0],
                  [kind |-> "mod", js |-> ModEnvJS, c |-> modEnvCreate,
                   call |-> "create", before |-> Null, notes |-> 0]}

TwinsSetFromSf2(p) ==
    /\ twins.call = "create"
    /\ twins' = IF twins.kind = "vol"
                THEN Twins("vol", VolEnvJS_setFromSf2(twins.js, p),
                           volEnvSetFromSf2(twins.c, p), "setFromSf2", twins.notes)
                ELSE Twins("mod", ModEnvJS_setFromSf2(twins.js, p),
                           modEnvSetFromSf2(twins.c, p), "setFromSf2", twins.notes)
    /\ UNCHANGED <<processor, envelope, playhead, sf2, riff, synth, dsp, calls, pcm,
                   cursor, loader, midi>>

TwinsNoteOn ==
    /\ twins.notes < MaxNotes
    /\ LET zero == IF twins.kind = "vol" THEN Zero ELSE RInt(0)
       IN  twins' = Twins(twins.kind, jsNoteOn(twins.js, zero),
                          envNoteOn(twins.c, zero), "noteOn", twins.notes + 1)
    /\ UNCHANGED <<processor, envelope, playhead, sf2, riff, synth, dsp, calls, pcm,
                   cursor, loader, midi>>

TwinsNoteOff ==
    /\ twins.notes < MaxNotes
    /\ twins' = Twins(twins.kind, jsNoteOff(twins.js), envNoteOff(twins.c), "noteOff",
                      twins.notes + 1)
    /\ UNCHANGED <<processor, envelope, playhead, sf2, riff, synth, dsp, calls, pcm,
                   cursor, loader, midi>>

TwinsNextCall ==
    /\ twins' = IF twins.kind = "vol"
                THEN Twins("vol", VolEnvJS_next(twins.js), volEnvNext(twins.c), "next",
                           twins.notes)
                ELSE Twins("mod", ModEnvJS_next(twins.js), modEnvNext(twins.c), "next",
                           twins.notes)
    /\ UNCHANGED <<processor, envelope, playhead, sf2, riff, synth, dsp, calls, pcm,
                   cursor, loader, midi>>

TwinsNext ==
    \/ \E p \in VolParams : twins.kind = "vol" /\ TwinsSetFromSf2(p)
    \/ \E p \in ModParams : twins.kind = "mod" /\ TwinsSetFromSf2(p)
    \/ TwinsNoteOn
    \/ TwinsNoteOff
    \/ TwinsNextCall

TwinsSpec == TwinsInit /\ [][TwinsNext]_vars

\* ------------------------------------------------------------------ properties
Ids(pool) == {pool[i].id : i \in DOMAIN pool}
VoiceOf(pool, id) == pool[CHOOSE i \in DOMAIN pool : pool[i].id = id]

\* a step in which onMsg handles the oldest queued message, of the given type
HandledStep(type) ==
    /\ inbox # <<>>
    /\ Head(inbox).type = type
    /\ inbox' = Tail(inbox)
    /\ sent' = sent

\* a step that renders one output frame
FrameStep == inbox' = inbox /\ sent' = sent /\ last'.op = "frame"

\* the level the volume envelope is at, times the voice's static gain
TrueLoud(v) == LvMul(v.volEnv.level, v.baseGain)

\* C1: from the empty pool on, the pool never holds more than maxVoices voices,
\* and it did not while the last noteOn was allocating its layers either.
C1_PoolBounded == Len(voices) <= maxVoices /\ last.peak <= maxVoices

\* a noteOn that matched several regions has just allocated into a full pool
C1_Witness ==
    /\ last.op = "noteOn"
    /\ Len(last.matching) >= 2
    /\ last.steals # <<>>
    /\ Len(voices) = maxVoices

\* C2: every voice stolen by a noteOn was one of the quietest of the pool it was
\* taken from: no voice of that pool had a strictly smaller (volume envelope
\* level x static gain).
C2_StealsQuietest ==
    last.op = "noteOn" =>
        \A k \in DOMAIN last.steals :
            LET pool == last.steals[k].pool
                victim == VoiceOf(pool, last.steals[k].victim)
            IN  \A i \in DOMAIN pool : ~LvLess(TrueLoud(pool[i]), TrueLoud(victim))

\* C3: a noteOn that matches one region while the pool is full removes exactly
\* one of the voices that were there (it is gone from the pool, not released in
\* place), adds exactly one voice, which has the note of the message, and
\* leaves the pool at maxVoices.
C3_StealOne ==
    [][(/\ HandledStep("noteOn")
        /\ Len(voices) = maxVoices
        /\ Len(pickRegions(regions, Head(inbox).note, Head(inbox).velocity)) = 1)
       => /\ Len(voices') = maxVoices
          /\ Cardinality(Ids(voices) \ Ids(voices')) = 1
          /\ Cardinality(Ids(voices') \ Ids(voices)) = 1
          /\ \A i \in DOMAIN voices' :
                voices'[i].id \notin Ids(voices) => voices'[i].note = Head(inbox).note
          /\ voices'[Len(voices')].id \notin Ids(voices)]_vars

\* a one-region noteOn has just stolen a voice
C3_Witness ==
    /\ last.op = "noteOn"
    /\ Len(last.matching) = 1
    /\ Len(last.steals) = 1
    /\ Len(voices) = maxVoices
    /\ voices[Len(voices)].note = last.msg.note

\* C4: noteOn selects exactly the regions whose key and velocity ranges contain
\* the note and the velocity (bounds included, a missing range being 0..127),
\* in list order; when they are at most maxVoices, the pool afterwards holds
\* one voice of this noteOn per selected region, in that order, each with the
\* message's note.
Contains(range, x) ==
    IF range = Null THEN 0 <= x /\ x <= 127 ELSE range[1] <= x /\ x <= range[2]

C4_Layering ==
    last.op = "noteOn" =>
        LET Sel(r) == /\ Contains(RegionTable[r].keyRange, last.msg.note)
                      /\ Contains(RegionTable[r].velRange, last.msg.velocity)
            Mine(v) == v.id \in last.created
            mine == SelectSeq(voices, Mine)
        IN  /\ last.matching = SelectSeq(regions, Sel)
            /\ Len(last.matching) <= maxVoices =>
                  /\ Len(mine) = Len(last.matching)
                  /\ \A i \in DOMAIN mine :
                        /\ mine[i].region = last.matching[i]
                        /\ mine[i].note = last.msg.note

\* a two-layer noteOn has just allocated into a full pool, stealing twice
C4_Witness ==
    /\ last.op = "noteOn"
    /\ Len(last.matching) = 2
    /\ Len(last.steals) = 2
    /\ Cardinality(Ids(voices) \cap last.created) = 2

\* what noteOff does to one envelope: nothing when it is idle, otherwise it
\* starts the release from the level the envelope is at
Released(env, env2) ==
    IF env.stage = "idle" THEN env2 = env
    ELSE env2 = [env EXCEPT !.stage = "release", !.t = 0, !.releaseStart = env.level]

\* the nonzero exclusive classes of the regions a queued noteOn matches
MatchedClasses ==
    LET matching == pickRegions(regions, Head(inbox).note, Head(inbox).velocity)
    IN  {RegionTable[matching[i]].exclusiveClass : i \in DOMAIN matching} \ {0}

Victims == {last'.steals[k].victim : k \in DOMAIN last'.steals}

\* the voice has not been released: both envelopes are on their way up or held
Unreleased(v) ==
    /\ v.volEnv.stage \notin {"release", "idle"}
    /\ v.modEnv.stage \notin {"release", "idle"}

\* the level the voice's volume envelope has after the frame being rendered
LevelFalls(v) ==
    v.id \in Ids(voices') /\ LvLess(VoiceOf(voices', v.id).volEnv.level, v.volEnv.level)

\* C5 (as the code has it): a noteOn that matches some region releases both
\* envelopes (an idle one stays idle) of every voice already in the pool whose
\* class is the nonzero class of a matching region, and leaves every other
\* voice of the pool as it was; a voice that was in the pool is missing
\* afterwards only if the allocation that follows stole it, which happens
\* exactly as often as the pool overflows; the voices the noteOn creates are not
\* released by it; and in every frame a releasing voice whose release started
\* above EPS has a strictly smaller level after the frame than before.
C5_Choke ==
    [][/\ HandledStep("noteOn") =>
            /\ Len(last'.steals) =
                  (IF Len(voices) + Len(last'.matching) > maxVoices
                   THEN Len(voices) + Len(last'.matching) - maxVoices ELSE 0)
            /\ \A i \in DOMAIN voices :
                  LET v == voices[i]
                  IN  /\ v.id \in Ids(voices') \/ v.id \in Victims
                      /\ v.id \in Ids(voices') =>
                            LET w == VoiceOf(voices', v.id)
                            IN  IF v.exclusiveClass \in MatchedClasses
                                THEN /\ Released(v.volEnv, w.volEnv)
                                     /\ Released(v.modEnv, w.modEnv)
                                ELSE w = v
            /\ \A j \in DOMAIN voices' :
                  voices'[j].id \notin Ids(voices) => Unreleased(voices'[j])
       /\ FrameStep =>
            \A i \in DOMAIN voices :
                (/\ voices[i].volEnv.stage = "release"
                 /\ LvLess(EPS, voices[i].volEnv.releaseStart)
                 /\ ~voices[i].finished)
                => LevelFalls(voices[i])]_vars

\* a noteOn has just choked a voice that was sounding above EPS: the voice is
\* still in the pool, at the start of its release, beside the new voice
C5_Witness ==
    /\ last.op = "noteOn"
    /\ \E i \in DOMAIN voices :
          /\ voices[i].id \notin last.created
          /\ voices[i].exclusiveClass # 0
          /\ voices[i].exclusiveClass \in
                {RegionTable[last.matching[k]].exclusiveClass : k \in DOMAIN last.matching}
          /\ voices[i].volEnv.stage = "release"
          /\ voices[i].volEnv.t = 0
          /\ LvLess(EPS, voices[i].volEnv.releaseStart)
    /\ \E j \in DOMAIN voices : voices[j].id \in last.created

\* C5 as stated: for every nonzero class k of a matching region, every voice
\* of class k already in the pool is released and is still in the pool after
\* the noteOn, no voice of another class (or of class 0) is released, the
\* voices created are not released, and a voice released while sustaining has
\* a strictly smaller level after every frame.
C5_ChokeAsStated ==
    [][/\ HandledStep("noteOn") =>
            /\ \A k \in MatchedClasses : \A i \in DOMAIN voices :
                  LET v == voices[i]
                  IN  IF v.exclusiveClass = k
                      THEN /\ v.id \in Ids(voices')
                           /\ Released(v.volEnv, VoiceOf(voices', v.id).volEnv)
                           /\ Released(v.modEnv, VoiceOf(voices', v.id).modEnv)
                      ELSE v.id \in Ids(voices') =>
                              VoiceOf(voices', v.id).volEnv = v.volEnv
            /\ \A j \in DOMAIN voices' :
                  voices'[j].id \notin Ids(voices) => Unreleased(voices'[j])
       /\ FrameStep =>
            \A i \in DOMAIN voices :
                (/\ voices[i].volEnv.stage = "release"
                 /\ voices[i].volEnv.releaseStart = voices[i].volEnv.sustain
                 /\ ~voices[i].finished)
                => LevelFalls(voices[i])]_vars

\* C6: a voice whose volume envelope is idle when a frame starts is dropped by
\* that frame, looping or not (the step by which a released voice, whose
\* envelope reaches idle after its release time, leaves the pool).
C6_IdleVoiceDropped ==
    [][FrameStep =>
          \A i \in DOMAIN voices :
              voices[i].volEnv.stage = "idle" => voices[i].id \notin Ids(voices')]_vars

\* the voice plays its sample once: it is not looping, or it loops until
\* release and is in its release tail
PlaysOut(v) == ~(v.looping /\ ~v.inReleaseTail)

\* C7: in a frame, a voice that plays its sample out and is not finished yet
\* stays in the pool and is finished afterwards exactly if its cursor has
\* reached or passed end, and a voice that loops is not flagged; a voice that
\* is finished when a frame starts is gone after the frame and is not mixed
\* into it, released or not; and no step clears the flag of a voice that stays.
C7_Finished ==
    [][\A i \in DOMAIN voices :
          LET v == voices[i]
          IN  /\ (v.finished /\ v.id \in Ids(voices')) => VoiceOf(voices', v.id).finished
              /\ FrameStep =>
                    /\ v.finished => (v.id \notin Ids(voices') /\ v.id \notin last'.out)
                    /\ ~v.finished =>
                          /\ v.id \in Ids(voices')
                          /\ VoiceOf(voices', v.id).finished =
                                (PlaysOut(v) /\ VoiceOf(voices', v.id).pos >= v.end)
                          /\ PlaysOut(v) => VoiceOf(voices', v.id).pos = v.pos + v.baseRate]_vars

\* a frame has just flagged a voice for which no noteOff was ever received
C7_Witness ==
    /\ last.op = "frame"
    /\ \E i \in DOMAIN voices :
          /\ voices[i].finished
          /\ voices[i].pos >= voices[i].end
          /\ voices[i].id \in last.out
          /\ Unreleased(voices[i])

\* the voices of the pool that noteOff(note) is about
Sounding(note) == {i \in DOMAIN voices : voices[i].note = note}

\* what noteOff leaves alone in every voice, and in the processor
NoteOffFrame ==
    /\ Len(voices') = Len(voices)
    /\ \A i \in DOMAIN voices :
          IF voices[i].note = Head(inbox).note
          THEN /\ voices'[i] = [voices[i] EXCEPT !.volEnv = voices'[i].volEnv,
                                                  !.modEnv = voices'[i].modEnv,
                                                  !.inReleaseTail = voices'[i].inReleaseTail]
               /\ voices'[i].inReleaseTail =
                     (voices[i].inReleaseTail \/ voices[i].loopUntilReleaseThenTail)
          ELSE voices'[i] = voices[i]
    /\ UNCHANGED <<regions, cc7Volume, cc10Pan, cc11Expression>>

\* C8 (as the code has it): noteOff(note) starts the release of each envelope
\* that is not idle (an idle envelope stays idle) of every voice whose note is
\* note, from the level the envelope is at, and sets the release-tail flag of
\* those voices whose region loops until release; it removes no voice, changes
\* nothing else in those voices, nothing at all in the voices of another note,
\* and neither the region list nor the controllers.
C8_NoteOff ==
    [][HandledStep("noteOff") =>
          /\ NoteOffFrame
          /\ \A i \in Sounding(Head(inbox).note) :
                /\ Released(voices[i].volEnv, voices'[i].volEnv)
                /\ Released(voices[i].modEnv, voices'[i].modEnv)]_vars

\* a noteOff has just released one voice and left one of another note alone
C8_Witness ==
    /\ last.op = "noteOff"
    /\ \E i \in DOMAIN voices :
          /\ voices[i].note = last.msg.note
          /\ voices[i].volEnv.stage = "release" /\ voices[i].volEnv.t = 0
          /\ voices[i].modEnv.stage = "release" /\ voices[i].modEnv.t = 0
    /\ \E j \in DOMAIN voices : voices[j].note # last.msg.note /\ Unreleased(voices[j])

\* C8 as stated: after noteOff(note) both envelopes of every voice whose note
\* is note are in release; the rest of the frame as above.
C8_NoteOffAsStated ==
    [][HandledStep("noteOff") =>
          /\ NoteOffFrame
          /\ \A i \in Sounding(Head(inbox).note) :
                /\ voices'[i].volEnv.stage = "release"
                /\ voices'[i].modEnv.stage = "release"]_vars

Regions(regs) == {regs[i] : i \in DOMAIN regs}

\* C9: applying setPreset empties the pool, whatever the voices' stages, and
\* makes the region list the list supplied (empty when none is supplied); so
\* after every step each voice of the pool was created under the current
\* preset from one of its regions, and the voices mixed into a frame were too.
C9_SetPreset ==
    [][/\ HandledStep("setPreset") =>
            /\ voices' = <<>>
            /\ regions' = (IF Head(inbox).regions = Null THEN <<>>
                           ELSE Head(inbox).regions[1])
       /\ \A i \in DOMAIN voices' :
            /\ voices'[i].id >= presetId'
            /\ voices'[i].region \in Regions(regions')
       /\ last'.op = "frame" => \A id \in last'.out : id >= presetId']_vars

\* a setPreset has just replaced a preset under which voices were sounding
C9_Witness ==
    /\ last.op = "setPreset"
    /\ last.peak > 0
    /\ voices = <<>>
    /\ regions # <<>>
    /\ regions = last.msg.regions[1]

\* the processor's state that messages act on
Engine == <<regions, voices, cc7Volume, cc10Pan, cc11Expression>>

Cursor(sample, sampleModes) ==
    [pos |-> sample.start, rate |-> 1, start |-> sample.start, end |-> sample.end,
     loopStart |-> sample.loopStart, loopEnd |-> sample.loopEnd,
     looping |-> sampleModes \in {1, 3},
     loopUntilReleaseThenTail |-> sampleModes = 3,
     inReleaseTail |-> FALSE, finished |-> FALSE]

Playhead(v, call, before) == [v |-> v, call |-> call, before |-> before]

\* Samples with a loop of 100, 4, 2 and 1 frames, and a loop that ends at the
\* sample's end.
Samples == {Sample(250, 100, 200), Sample(6, 1, 5), Sample(4, 1, 3), Sample(5, 2, 3),
            Sample(4, 0, 4)}

\* v.rate = baseRate * centsToRatio(pitch): below, at and above the loop lengths
Rates == {1, 3, 7}

PlayheadInit ==
    /\ Constructed
    /\ envelope = Null
    /\ \E s \in Samples, m \in {0, 1, 3} :
          playhead = Playhead(Cursor(s, m), "makeVoice", Cursor(s, m))
    /\ sf2 = Null
    /\ riff = Null
    /\ synth = Null
    /\ dsp = Null
    /\ calls = Null
    /\ pcm = Null
    /\ cursor = Null
    /\ twins = Null
    /\ loader = Null
    /\ midi = Null

\* one frame of process for the voice: the rate, then advancePos; a finished
\* voice has left the pool
PlayheadAdvance(r) ==
    /\ ~playhead.v.finished
    /\ playhead' = Playhead(advancePos([playhead.v EXCEPT !.rate = r]), "advancePos",
                            playhead.v)
    /\ UNCHANGED <<processor, envelope, sf2, riff, synth, dsp, calls, pcm, cursor, twins, loader, midi>>

\* noteOff for the voice's note: the release tail of sampleModes 3 begins
PlayheadRelease ==
    /\ ~playhead.v.finished
    /\ playhead.v.loopUntilReleaseThenTail
    /\ ~playhead.v.inReleaseTail
    /\ playhead' = Playhead([playhead.v EXCEPT !.inReleaseTail = TRUE], "noteOff",
                            playhead.v)
    /\ UNCHANGED <<processor, envelope, sf2, riff, synth, dsp, calls, pcm, cursor, twins, loader, midi>>

PlayheadNext ==
    \/ \E r \in Rates : PlayheadAdvance(r)
    \/ PlayheadRelease

PlayheadSpec == PlayheadInit /\ [][PlayheadNext]_vars

\* ------------------------------------------------------------------ the resolver
\* Generator operators (the Gen table)
Gen ==
    [startAddrsOffset |-> 0, endAddrsOffset |-> 1, startloopAddrsOffset |-> 2,
     endloopAddrsOffset |-> 3, startAddrsCoarseOffset |-> 4,
     endAddrsCoarseOffset |-> 12, pan |-> 17, sustainModEnv |-> 29,
     releaseModEnv |-> 30, sustainVolEnv |-> 37, releaseVolEnv |-> 38,
     instrument |-> 41, keyRange |-> 43, velRange |-> 44,
     startloopAddrsCoarseOffset |-> 45, initialAttenuation |-> 48,
     endloopAddrsCoarseOffset |-> 50, coarseTune |-> 51, fineTune |-> 52,
     sampleID |-> 53, sampleModes |-> 54, scaleTuning |-> 56,
     exclusiveClass |-> 57, overridingRootKey |-> 58]

\* one generator record of pgen / igen
G(oper, amount) == [oper |-> oper, amount |-> amount]

\* obj[k] ?? d, and obj[k] = v, on a generator map (an object keyed by operator)
Get(g, k, d) == IF k \in DOMAIN g THEN g[k] ELSE d
Put(g, k, v) == [x \in DOMAIN g \cup {k} |-> IF x = k THEN v ELSE g[x]]

\* arr[i] of a JavaScript array: the element, wrapped, or nothing (undefined)
At(arr, i) == IF i \in 0..(Len(arr) - 1) THEN <<arr[i + 1]>> ELSE Null

\* unpackRange: low byte and high byte of the amount taken as unsigned 16 bits
unpackRange(i16) ==
    LET u == i16 % 65536
    IN  <<u % 256, (u \div 256) % 256>>

\* a getPreset that takes the nearest preset for an index out of range
getPreset_Clamps(pdta, presetIndex) ==
    LET lastRec == Len(pdta.phdr) - 1
        i == IF presetIndex < 0 THEN 0
             ELSE IF presetIndex >= lastRec THEN lastRec - 1 ELSE presetIndex
    IN  [threw |-> "", bagStart |-> pdta.phdr[i + 1], bagEnd |-> pdta.phdr[i + 2]]

\* getPreset; threw is the message of the Error thrown, or ""
getPreset(pdta, presetIndex) ==
    LET lastRec == Len(pdta.phdr) - 1
    IN  IF presetIndex < 0 \/ presetIndex >= lastRec
        THEN [threw |-> "presetIndex out of range", bagStart |-> 0, bagEnd |-> 0]
        ELSE [threw |-> "", bagStart |-> pdta.phdr[presetIndex + 1],
              bagEnd |-> pdta.phdr[presetIndex + 2]]

\* getInstrument
getInstrument(pdta, instIndex) ==
    LET lastRec == Len(pdta.inst) - 1
    IN  IF instIndex < 0 \/ instIndex >= lastRec
        THEN [threw |-> "instIndex out of range", bagStart |-> 0, bagEnd |-> 0]
        ELSE [threw |-> "", bagStart |-> pdta.inst[instIndex + 1],
              bagEnd |-> pdta.inst[instIndex + 2]]

\* zonesFromBags, the inner loop: zoneGens[g.oper] = g.amount for gi in
\* genStart..genEnd-1
RECURSIVE ZoneGens(_, _, _, _)
ZoneGens(gens, gi, genEnd, zoneGens) ==
    IF gi >= genEnd THEN zoneGens
    ELSE ZoneGens(gens, gi + 1, genEnd,
                  Put(zoneGens, gens[gi + 1].oper, gens[gi + 1].amount))

\* zonesFromBags (bags holds each bag's genNdx)
RECURSIVE zonesFromBags(_, _, _, _)
zonesFromBags(bags, gens, bagStart, bagEnd) ==
    IF bagStart >= bagEnd THEN <<>>
    ELSE LET bNext == At(bags, bagStart + 1)
             genEnd == IF bNext # Null THEN bNext[1] ELSE Len(gens)
         IN  <<[bagIndex |-> bagStart,
                gens |-> ZoneGens(gens, bags[bagStart + 1], genEnd, <<>>)]>>
             \o zonesFromBags(bags, gens, bagStart + 1, bagEnd)

\* the generators mergeGens replaces; all others add up
Replaced ==
    {Gen.keyRange, Gen.velRange, Gen.instrument, Gen.sampleID, Gen.sampleModes,
     Gen.exclusiveClass, Gen.overridingRootKey}

\* an apply that replaces every generator
apply_ReplacesAll(out, src) ==
    [k \in DOMAIN out \cup DOMAIN src |-> IF k \in DOMAIN src THEN src[k] ELSE out[k]]

\* mergeGens, apply(src) on out
apply(out, src) ==
    [k \in DOMAIN out \cup DOMAIN src |->
        IF k \notin DOMAIN src THEN out[k]
        ELSE IF k \in Replaced THEN src[k]
        ELSE Get(out, k, 0) + src[k]]

\* mergeGens
mergeGens(pGlobal, pZone, iGlobal, iZone) ==
    apply(apply(apply(apply(<<>>, pGlobal), pZone), iGlobal), iZone)

\* computeAddressOffset
computeAddressOffset(g, fineOp, coarseOp) ==
    Get(g, fineOp, 0) + Get(g, coarseOp, 0) * 32768

\* clampU32: x >>> 0 takes x modulo 2^32, so a negative x (above -2^31) is a
\* number above every hi the model uses
clampU32(x, lo, hi) ==
    IF x < 0 THEN hi
    ELSE IF x < lo THEN lo
    ELSE IF x > hi THEN hi
    ELSE x

\* clamp01(raw / 1000), in thousandths
clamp01(x) == IF x < 0 THEN 0 ELSE IF x > 1000 THEN 1000 ELSE x

Min(a, b) == IF a < b THEN a ELSE b
Max(a, b) == IF a > b THEN a ELSE b

\* a loop test that lets a loop of one frame pass
LoopSane_AllowsOne(loopStart, loopEnd) == loopEnd > loopStart

\* region.sample.loopEnd > region.sample.loopStart + 1
LoopSane(loopStart, loopEnd) == loopEnd > loopStart + 1

\* makeRegionFromMerged: the region in a list of one, or the empty list for
\* null.  The filter and LFO fields of the region are left out; the banks of
\* the model all carry sample data.  The region's range is the range of the
\* pool that decodeSampleData is given; the decoding itself is decodeSampleData
\* below.
makeRegionFromMerged(bank, g) ==
    IF Gen.sampleID \notin DOMAIN g THEN <<>>
    ELSE IF At(bank.pdta.shdr, g[Gen.sampleID]) = Null THEN <<>>
    ELSE
    LET sh == bank.pdta.shdr[g[Gen.sampleID] + 1]
        smplLength == bank.sdta.smpl
        start == clampU32(sh.start + computeAddressOffset(g, Gen.startAddrsOffset,
                                         Gen.startAddrsCoarseOffset), 0, smplLength)
        end == clampU32(sh.end + computeAddressOffset(g, Gen.endAddrsOffset,
                                         Gen.endAddrsCoarseOffset), 0, smplLength)
        loopStart == clampU32(sh.startLoop
                                + computeAddressOffset(g, Gen.startloopAddrsOffset,
                                         Gen.startloopAddrsCoarseOffset), 0, smplLength)
        loopEnd == clampU32(sh.endLoop
                                + computeAddressOffset(g, Gen.endloopAddrsOffset,
                                         Gen.endloopAddrsCoarseOffset), 0, smplLength)
        dataL == end - start
        ls == Max(0, Min(loopStart - start, dataL))
        le == Max(0, Min(loopEnd - start, dataL))
        sane == LoopSane(ls, le)
    IN  IF end <= start THEN <<>>
        ELSE <<[keyRange |-> IF Gen.keyRange \in DOMAIN g
                             THEN unpackRange(g[Gen.keyRange]) ELSE <<0, 127>>,
                velRange |-> IF Gen.velRange \in DOMAIN g
                             THEN unpackRange(g[Gen.velRange]) ELSE <<0, 127>>,
                sample |-> [sampleRate |-> sh.sampleRate, start |-> 0, end |-> dataL,
                            loopStart |-> IF sane THEN ls ELSE 0,
                            loopEnd |-> IF sane THEN le ELSE dataL],
                sampleModes |-> IF sane THEN Get(g, Gen.sampleModes, 0) ELSE 0,
                originalKey |-> sh.originalPitch,
                overridingRootKey |-> IF Gen.overridingRootKey \in DOMAIN g
                                      THEN <<g[Gen.overridingRootKey] % 256>> ELSE Null,
                coarseTune |-> Get(g, Gen.coarseTune, 0),
                fineTune |-> Get(g, Gen.fineTune, 0) + sh.pitchCorrection,
                scaleTuning |-> Get(g, Gen.scaleTuning, 100),
                initialAttenuationCb |-> Get(g, Gen.initialAttenuation, 0),
                pan |-> Get(g, Gen.pan, 0),
                volEnv |-> [DefaultEnv EXCEPT
                                !.sustainCb = Get(g, Gen.sustainVolEnv, 0),
                                !.releaseTc = Get(g, Gen.releaseVolEnv, -12000)],
                modEnv |-> [DefaultEnv EXCEPT
                                !.sustain = clamp01(Get(g, Gen.sustainModEnv, 0)),
                                !.releaseTc = Get(g, Gen.releaseModEnv, -12000)],
                exclusiveClass |-> Get(g, Gen.exclusiveClass, 0),
                range |-> [start |-> start, end |-> end]]>>

\* a global zone taken from the first zone whatever it carries
GlobalGens_Always(zones, oper) == IF zones # <<>> THEN zones[1].gens ELSE <<>>

\* the global zone of a zone list: the first zone's generators if it lacks
\* the given operator, else {}
GlobalGens(zones, oper) ==
    IF zones # <<>> /\ oper \notin DOMAIN zones[1].gens THEN zones[1].gens ELSE <<>>

\* buildRegionsForPreset, the loop over the zones of one instrument
RECURSIVE InstZoneLoop(_, _, _, _, _, _)
InstZoneLoop(bank, presetGlobal, pz, instGlobal, instZones, regs) ==
    IF instZones = <<>> THEN regs
    ELSE LET iz == Head(instZones)
         IN  InstZoneLoop(bank, presetGlobal, pz, instGlobal, Tail(instZones),
                 IF Gen.sampleID \notin DOMAIN iz.gens THEN regs
                 ELSE regs \o makeRegionFromMerged(bank,
                          mergeGens(presetGlobal, pz.gens, instGlobal, iz.gens)))

\* a loop over the preset's zones that ends the build, without an error, at
\* the first instrument one of whose zones gave no region
RECURSIVE PresetZoneLoop_StopsAtInvalid(_, _, _, _)
PresetZoneLoop_StopsAtInvalid(bank, presetGlobal, presetZones, regs) ==
    IF presetZones = <<>> THEN [threw |-> "", regions |-> regs, made |-> regs]
    ELSE LET pz == Head(presetZones)
         IN  IF Gen.instrument \notin DOMAIN pz.gens
             THEN PresetZoneLoop_StopsAtInvalid(bank, presetGlobal,
                                                Tail(presetZones), regs)
             ELSE LET inst == getInstrument(bank.pdta, pz.gens[Gen.instrument])
                      instZones == zonesFromBags(bank.pdta.ibag, bank.pdta.igen,
                                                 inst.bagStart, inst.bagEnd)
                      made == InstZoneLoop(bank, presetGlobal, pz,
                                           GlobalGens(instZones, Gen.sampleID),
                                           instZones, regs)
                      playable == {k \in 1..Len(instZones) :
                                      Gen.sampleID \in DOMAIN instZones[k].gens}
                  IN  IF inst.threw # ""
                      THEN [threw |-> inst.threw, regions |-> <<>>, made |-> regs]
                      ELSE IF Len(made) - Len(regs) < Cardinality(playable)
                      THEN [threw |-> "", regions |-> made, made |-> made]
                      ELSE PresetZoneLoop_StopsAtInvalid(bank, presetGlobal,
                                                         Tail(presetZones), made)

\* buildRegionsForPreset, the loop over the preset's zones; a throw of
\* getInstrument ends the call (made: the regions pushed by then)
RECURSIVE PresetZoneLoop(_, _, _, _)
PresetZoneLoop(bank, presetGlobal, presetZones, regs) ==
    IF presetZones = <<>> THEN [threw |-> "", regions |-> regs, made |-> regs]
    ELSE LET pz == Head(presetZones)
         IN  IF Gen.instrument \notin DOMAIN pz.gens
             THEN PresetZoneLoop(bank, presetGlobal, Tail(presetZones), regs)
             ELSE LET inst == getInstrument(bank.pdta, pz.gens[Gen.instrument])
                      instZones == zonesFromBags(bank.pdta.ibag, bank.pdta.igen,
                                                 inst.bagStart, inst.bagEnd)
                  IN  IF inst.threw # ""
                      THEN [threw |-> inst.threw, regions |-> <<>>, made |-> regs]
                      ELSE PresetZoneLoop(bank, presetGlobal, Tail(presetZones),
                               InstZoneLoop(bank, presetGlobal, pz,
                                            GlobalGens(instZones, Gen.sampleID),
                                            instZones, regs))

\* buildRegionsForPreset: what it throws ("" if nothing) and what it returns
buildRegionsForPreset(bank, presetIndex) ==
    LET preset == getPreset(bank.pdta, presetIndex)
        presetZones == zonesFromBags(bank.pdta.pbag, bank.pdta.pgen,
                                     preset.bagStart, preset.bagEnd)
    IN  IF preset.threw # ""
        THEN [threw |-> preset.threw, regions |-> <<>>, made |-> <<>>]
        ELSE PresetZoneLoop(bank, GlobalGens(presetZones, Gen.instrument),
                            presetZones, <<>>)

\* The tables of a file's pdta chunk, from its presets and instruments given
\* as lists of zones, each zone a list of generator records: the header table
\* holds each list's first bag index and the bag table each zone's first
\* generator index, both closed by the terminal record.
RECURSIVE Concat(_)
Concat(lists) == IF lists = <<>> THEN <<>> ELSE Head(lists) \o Concat(Tail(lists))

RECURSIVE Ndx(_, _)
Ndx(lists, n) ==
    IF lists = <<>> THEN <<n>> ELSE <<n>> \o Ndx(Tail(lists), n + Len(Head(lists)))

\* one shdr record
Shdr(start, end, startLoop, endLoop) ==
    [start |-> start, end |-> end, startLoop |-> startLoop, endLoop |-> endLoop,
     sampleRate |-> sampleRate, originalPitch |-> 60, pitchCorrection |-> 0]

\* parseSF2: the object it returns for a file with these presets, instruments,
\* sample headers and sample data length
parseSF2(presets, insts, shdr, smplLength) ==
    [pdta |-> [phdr |-> Ndx(presets, 0),
               pbag |-> Ndx(Concat(presets), 0),
               pgen |-> Concat(Concat(presets)) \o <<G(0, 0)>>,
               inst |-> Ndx(insts, 0),
               ibag |-> Ndx(Concat(insts), 0),
               igen |-> Concat(Concat(insts)) \o <<G(0, 0)>>,
               shdr |-> shdr],
     sdta |-> [smpl |-> smplLength]]

\* keyRange amounts: 0..127, 60..60, high byte 255, low byte 128
RangeAmounts == {32512, 15420, -256, 128}
\* instrument generator amounts; the instruments are 0 and 1, 2 is the terminal
InstIndexes == {-1, 0, 1, 2}
\* sampleID amounts; the samples are 0 and 1, 2 is the terminal, 9 is no record
SampleIDs == {1, 2, 9}
\* startloopAddrsOffset and endloopAddrsOffset: the header's loop, a loop start
\* before the sample data, a loop of one frame, a loop end past the sample
LoopOffsets == {<<0, 0>>, <<-3, 0>>, <<3, 0>>, <<0, 5>>}
\* startAddrsOffset and endAddrsOffset: none, a start before the sample data,
\* an end three frames on
StartOffsets == {<<0, 0>>, <<-9, 0>>, <<0, 3>>}
\* presetIndex arguments; the presets are 0 and 1, 2 is the terminal
PresetIndexes == -1..3

\* The files of the model.  Preset 0 has a first zone that is global or not
\* (g1), a zone for instrument 0, a later zone without an instrument and a zone
\* for instrument ix; preset 1 has one zone for instrument 1.  Instrument 0 has
\* a first zone that is global or not (g2), a zone for sample 0, a later zone
\* without a sample and a zone for sample sid; instrument 1 has one zone.
File(g1, g2, kr, ix, sid, lo, so, sm) ==
    [presets |->
        << << <<G(Gen.pan, 100), G(Gen.initialAttenuation, 30),
                G(Gen.keyRange, 32512)>>
              \o (IF g1 THEN <<>> ELSE <<G(Gen.instrument, 1)>>),
              <<G(Gen.pan, -20), G(Gen.velRange, 32512), G(Gen.instrument, 0)>>,
              <<G(Gen.initialAttenuation, 50), G(Gen.pan, 7)>>,
              <<G(Gen.instrument, ix)>> >>,
           << <<G(Gen.velRange, kr), G(Gen.instrument, 1)>> >> >>,
     insts |->
        << << <<G(Gen.sampleModes, 1), G(Gen.pan, 10), G(Gen.exclusiveClass, 5)>>
              \o (IF g2 THEN <<>> ELSE <<G(Gen.sampleID, 1)>>),
              <<G(Gen.keyRange, kr), G(Gen.startloopAddrsOffset, lo[1]),
                G(Gen.endloopAddrsOffset, lo[2]), G(Gen.sampleID, 0)>>,
              <<G(Gen.pan, 3)>>,
              <<G(Gen.startAddrsOffset, so[1]), G(Gen.endAddrsOffset, so[2]),
                G(Gen.sampleModes, sm),
                G(Gen.initialAttenuation, 5), G(Gen.sampleID, sid)>> >>,
           << <<G(Gen.sampleModes, 3), G(Gen.sampleID, 1)>> >> >>,
     shdr |-> <<Shdr(0, 8, 2, 6), Shdr(8, 12, 9, 12), Shdr(0, 0, 0, 0)>>,
     smplLength |-> 12]

Files ==
    {File(g1, g2, kr, ix, sid, lo, so, sm) :
        g1 \in BOOLEAN, g2 \in BOOLEAN, kr \in RangeAmounts, ix \in InstIndexes,
        sid \in SampleIDs, lo \in LoopOffsets, so \in StartOffsets, sm \in {0, 3}}

\* The parsed bank: the file it was parsed from, the object parseSF2 returned
\* (parsed), the object as it is now (bank), the call made last with its
\* argument and outcome, and whether an earlier call threw.
Sf2Init ==
    /\ Constructed
    /\ envelope = Null
    /\ playhead = Null
    /\ riff = Null
    /\ synth = Null
    /\ dsp = Null
    /\ calls = Null
    /\ pcm = Null
    /\ cursor = Null
    /\ twins = Null
    /\ loader = Null
    /\ midi = Null
    /\ \E f \in Files :
          sf2 = [file |-> f,
                 parsed |-> parseSF2(f.presets, f.insts, f.shdr, f.smplLength),
                 bank |-> parseSF2(f.presets, f.insts, f.shdr, f.smplLength),
                 call |-> "parseSF2", presetIndex |-> 0,
                 result |-> [threw |-> "", regions |-> <<>>, made |-> <<>>],
                 failed |-> FALSE]

\* sf2.buildRegionsForPreset(presetIndex); the call reads the bank and writes
\* nothing to it
BuildRegions(presetIndex) ==
    /\ sf2' = [sf2 EXCEPT !.call = "buildRegionsForPreset",
                          !.presetIndex = presetIndex,
                          !.result = buildRegionsForPreset(sf2.bank, presetIndex),
                          !.failed = sf2.failed \/ sf2.result.threw # ""]
    /\ UNCHANGED <<processor, envelope, playhead, riff, synth, dsp, calls, pcm, cursor, twins, loader, midi>>

Sf2Next == \E presetIndex \in PresetIndexes : BuildRegions(presetIndex)

Sf2Spec == Sf2Init /\ [][Sf2Next]_vars

\* Banks whose instrument zones carry an overridingRootKey generator.  Its
\* amount is a signed 16-bit number: -1 (no override), keys 0, 60 and 127,
\* 128 and 255, and the least and the greatest amount.
RootKeys == {-1, 0, 60, 127, 128, 255, -32768, 32767}

Rooted(f, amount) ==
    [f EXCEPT !.insts[1][2] = <<G(Gen.overridingRootKey, amount)>> \o @,
              !.insts[1][4] = <<G(Gen.overridingRootKey, amount)>> \o @,
              !.insts[2][1] = <<G(Gen.overridingRootKey, amount)>> \o @]

RootKeyInit ==
    /\ Constructed
    /\ envelope = Null
    /\ playhead = Null
    /\ riff = Null
    /\ synth = Null
    /\ dsp = Null
    /\ calls = Null
    /\ pcm = Null
    /\ cursor = Null
    /\ twins = Null
    /\ loader = Null
    /\ midi = Null
    /\ \E f \in {g \in Files : g.presets[2][1][1].amount = 15420},
          amount \in RootKeys :
          LET r == Rooted(f, amount)
          IN  sf2 = [file |-> r, rootKey |-> amount,
                     parsed |-> parseSF2(r.presets, r.insts, r.shdr, r.smplLength),
                     bank |-> parseSF2(r.presets, r.insts, r.shdr, r.smplLength),
                     call |-> "parseSF2", presetIndex |-> 0,
                     result |-> [threw |-> "", regions |-> <<>>, made |-> <<>>],
                     failed |-> FALSE]

RootKeyNext == \E presetIndex \in PresetIndexes : BuildRegions(presetIndex)

RootKeySpec == RootKeyInit /\ [][RootKeyNext]_vars

\* ------------------------------------------------------------------ the parser
\* parseSF2 over the bytes of a file (u8, with byteOffset 0 in its buffer).  A
\* four-character code is the tuple of its four character codes.  A table is
\* kept as the positions its records were read from, the sample pool as its
\* length in frames.  The parser's state is its reader's position, the tables
\* and pool read so far, what was thrown ("" if nothing), and a log with one
\* entry per sub-chunk of a list: where its data starts, its declared size,
\* the end of the bytes taken from it, and where the reader went next.

\* u8[i]; undefined outside the array, which String.fromCharCode takes for 0
Byte(u8, i) == IF i >= 0 /\ i < Len(u8) THEN u8[i + 1] ELSE 0

\* Reader.readFourCC at pos
readFourCC(u8, pos) ==
    <<Byte(u8, pos), Byte(u8, pos + 1), Byte(u8, pos + 2), Byte(u8, pos + 3)>>

\* DataView reads of n bytes at pos throw a RangeError unless this holds
InBuffer(u8, pos, n) == pos >= 0 /\ n <= Len(u8) - pos

\* Reader.readU32LE at pos (InBuffer(u8, pos, 4)), for a DWORD below 2^31
readU32LE(u8, pos) ==
    Byte(u8, pos) + 256 * Byte(u8, pos + 1) + 65536 * Byte(u8, pos + 2)
        + 16777216 * Byte(u8, pos + 3)

\* the DWORD at pos is 2^31 or more
Large(u8, pos) == Byte(u8, pos + 3) >= 128

\* The DWORD at pos as a length: one of 2^31 or more, which no array here
\* comes near, stands as 2^31 - 1 where it is compared with what is left of
\* the array.
Length(u8, pos) == IF Large(u8, pos) THEN 2147483647 ELSE readU32LE(u8, pos)

\* r.pos < base + size, for the size read at `at` and a base of 0 or more
Within(u8, pos, base, at) ==
    \/ pos < base
    \/ Large(u8, at)
    \/ pos - base < readU32LE(u8, at)

\* (pos + 1) & ~1, for pos + 1 below 2^31
align2(pos) == pos + (pos % 2)

\* align2(base + size) for the size read at `at`: the operands of & are taken
\* modulo 2^32 as signed 32-bit numbers
align2Past(u8, base, at) ==
    LET low == Byte(u8, at) + 256 * Byte(u8, at + 1) + base + 1
        high == (Byte(u8, at + 2) + 256 * Byte(u8, at + 3) + low \div 65536) % 65536
        n == (IF high >= 32768 THEN high - 65536 ELSE high) * 65536 + (low % 65536)
    IN  n - (n % 2)

\* the chunk ids the parser knows
FourCC ==
    [RIFF |-> <<82, 73, 70, 70>>, sfbk |-> <<115, 102, 98, 107>>,
     LIST |-> <<76, 73, 83, 84>>, INFO |-> <<73, 78, 70, 79>>,
     sdta |-> <<115, 100, 116, 97>>, pdta |-> <<112, 100, 116, 97>>,
     smpl |-> <<115, 109, 112, 108>>, sm24 |-> <<115, 109, 50, 52>>,
     phdr |-> <<112, 104, 100, 114>>, pbag |-> <<112, 98, 97, 103>>,
     pmod |-> <<112, 109, 111, 100>>, pgen |-> <<112, 103, 101, 110>>,
     inst |-> <<105, 110, 115, 116>>, ibag |-> <<105, 98, 97, 103>>,
     imod |-> <<105, 109, 111, 100>>, igen |-> <<105, 103, 101, 110>>,
     shdr |-> <<115, 104, 100, 114>>]

\* the tables of the pdta list and the size of their records in bytes
RecSize ==
    [phdr |-> 38, pbag |-> 4, pmod |-> 10, pgen |-> 4, inst |-> 22,
     ibag |-> 4, imod |-> 10, igen |-> 4, shdr |-> 46]

\* the table a chunk id of the pdta list names, if it names one
TableOf(id) ==
    IF \E k \in DOMAIN RecSize : FourCC[k] = id
    THEN <<CHOOSE k \in DOMAIN RecSize : FourCC[k] = id>> ELSE Null

\* readPhdr, readInst, readBag, readGen, readMod, readShdr: the loop
\* for (i = 0; i < size / recSize; i++), with left = size - i * recSize; the
\* reads of one record take recSize bytes and the last of them is a DataView
\* read
RECURSIVE readRecords(_, _, _, _, _)
readRecords(u8, pos, left, recSize, out) ==
    IF left <= 0 THEN [threw |-> "", pos |-> pos, out |-> out]
    ELSE IF ~InBuffer(u8, pos, recSize)
    THEN [threw |-> "RangeError", pos |-> pos, out |-> out]
    ELSE readRecords(u8, pos + recSize, left - recSize, recSize, Append(out, pos))

\* the end of Reader.readBytes(size) at start: subarray stops at the array's end
BytesEnd(u8, start, size) ==
    IF size >= Len(u8) - start THEN Max(start, Len(u8)) ELSE start + size

\* parseINFO, parseSDTA, parsePDTA: the sub-chunks of a list up to endPos,
\* which is base plus the size read at `at`.  A reader that comes to a
\* position where it has been in this list goes round for ever.
RECURSIVE parseList(_, _, _, _, _)
parseList(u8, st, listType, base, at) ==
    IF st.threw # "" \/ ~Within(u8, st.pos, base, at) THEN st
    ELSE IF st.pos \in st.inList THEN [st EXCEPT !.halts = FALSE]
    ELSE IF ~InBuffer(u8, st.pos + 4, 4) THEN [st EXCEPT !.threw = "RangeError"]
    ELSE
    LET id == readFourCC(u8, st.pos)
        size == Length(u8, st.pos + 4)
        start == st.pos + 8
        table == TableOf(id)
        rd == readRecords(u8, start, size, RecSize[table[1]], <<>>)
        frames == size \div 2
        past == align2Past(u8, start, st.pos + 4)
        Went(taken, next) ==
            [st EXCEPT !.pos = next,
                       !.inList = @ \cup {st.pos},
                       !.log = Append(@, [list |-> listType, id |-> id,
                                          start |-> start, size |-> size,
                                          taken |-> taken, next |-> next])]
    IN  IF listType = FourCC.pdta /\ table # Null
        THEN IF rd.threw # "" THEN [st EXCEPT !.threw = rd.threw]
             ELSE parseList(u8, [Went(rd.pos, align2(rd.pos))
                                    EXCEPT !.pdta[table[1]] = rd.out],
                            listType, base, at)
        ELSE IF listType = FourCC.sdta /\ id = FourCC.smpl
        THEN IF start % 2 = 1 \/ ~InBuffer(u8, start, 2 * frames)
             THEN [st EXCEPT !.threw = "RangeError"]
             ELSE parseList(u8, [Went(start + 2 * frames, past)
                                    EXCEPT !.smpl = <<frames>>],
                            listType, base, at)
        ELSE IF listType = FourCC.INFO \/ (listType = FourCC.sdta /\ id = FourCC.sm24)
        THEN parseList(u8, Went(BytesEnd(u8, start, size), past), listType, base, at)
        ELSE parseList(u8, Went(start, past), listType, base, at)

\* parseSF2, the loop over the top-level chunks.  A reader that comes to a
\* position where it has read a top-level chunk before goes round for ever.
RECURSIVE riffChunks(_, _)
riffChunks(u8, st) ==
    IF st.threw # "" \/ ~st.halts \/ st.pos >= Len(u8) THEN st
    ELSE IF st.pos \in st.seen THEN [st EXCEPT !.halts = FALSE]
    ELSE IF ~InBuffer(u8, st.pos + 4, 4) THEN [st EXCEPT !.threw = "RangeError"]
    ELSE
    LET id == readFourCC(u8, st.pos)
        chunkStart == st.pos + 8
        listType == readFourCC(u8, chunkStart)
        parsed == parseList(u8, [st EXCEPT !.pos = chunkStart + 4, !.inList = {}],
                            listType, chunkStart, st.pos + 4)
        To(from, next) ==
            [from EXCEPT !.pos = next,
                         !.seen = @ \cup {st.pos},
                         !.chunks = Append(@, [at |-> st.pos, next |-> next])]
    IN  IF id = FourCC.LIST /\ listType \in {FourCC.INFO, FourCC.sdta, FourCC.pdta}
        THEN IF parsed.threw # "" \/ ~parsed.halts THEN parsed
             ELSE riffChunks(u8, To(parsed, align2(parsed.pos)))
        ELSE riffChunks(u8, To(st, align2Past(u8, chunkStart, st.pos + 4)))

\* the tables validatePDTA requires, in the order it looks at them
Required == <<"phdr", "pbag", "pgen", "inst", "ibag", "igen", "shdr">>

Missing ==
    [phdr |-> "Missing pdta table: phdr", pbag |-> "Missing pdta table: pbag",
     pgen |-> "Missing pdta table: pgen", inst |-> "Missing pdta table: inst",
     ibag |-> "Missing pdta table: ibag", igen |-> "Missing pdta table: igen",
     shdr |-> "Missing pdta table: shdr"]

\* a validation that does not look at the sample headers
validatePDTA_SkipsShdr(pdta) ==
    IF \E k \in 1..6 : pdta[Required[k]] = <<>>
    THEN Missing[Required[CHOOSE k \in 1..6 :
                     /\ pdta[Required[k]] = <<>>
                     /\ \A j \in 1..(k - 1) : pdta[Required[j]] # <<>>]]
    ELSE ""

\* validatePDTA: what it throws, "" if nothing
validatePDTA(pdta) ==
    IF \E k \in 1..Len(Required) : pdta[Required[k]] = <<>>
    THEN Missing[Required[CHOOSE k \in 1..Len(Required) :
                     /\ pdta[Required[k]] = <<>>
                     /\ \A j \in 1..(k - 1) : pdta[Required[j]] # <<>>]]
    ELSE ""

\* parseSF2(u8): what it throws, the bank it returns (none if it throws), and
\* the log of the sub-chunks it went through
parseSF2Chunks(u8) ==
    LET st == riffChunks(u8, [threw |-> "", halts |-> TRUE, pos |-> 12,
                              pdta |-> [k \in DOMAIN RecSize |-> <<>>],
                              smpl |-> Null, log |-> <<>>, chunks |-> <<>>,
                              seen |-> {}, inList |-> {}])
        Fail(message, log, chunks) ==
            [threw |-> message, halts |-> TRUE, bank |-> Null, log |-> log,
             chunks |-> chunks]
    IN  IF readFourCC(u8, 0) # FourCC.RIFF THEN Fail("Not RIFF", <<>>, <<>>)
        ELSE IF ~InBuffer(u8, 4, 4) THEN Fail("RangeError", <<>>, <<>>)
        ELSE IF readFourCC(u8, 8) # FourCC.sfbk
        THEN Fail("Not sfbk (SoundFont2)", <<>>, <<>>)
        ELSE IF ~st.halts
        THEN [threw |-> "", halts |-> FALSE, bank |-> Null, log |-> st.log,
              chunks |-> st.chunks]
        ELSE IF st.threw # "" THEN Fail(st.threw, st.log, st.chunks)
        ELSE IF validatePDTA(st.pdta) # ""
        THEN Fail(validatePDTA(st.pdta), st.log, st.chunks)
        ELSE [threw |-> "", halts |-> TRUE, log |-> st.log, chunks |-> st.chunks,
              bank |-> <<[pdta |-> st.pdta, sdta |-> [smpl |-> st.smpl]]>>]

\* Files.  n as a little-endian DWORD, n zero bytes, a chunk with a declared
\* size (padded to an even length), a LIST chunk.
U32LE(n) ==
    <<n % 256, (n \div 256) % 256, (n \div 65536) % 256, (n \div 16777216) % 256>>

RECURSIVE Zeros(_)
Zeros(n) ==
    IF n <= 0 THEN <<>>
    ELSE IF n = 1 THEN <<0>>
    ELSE Zeros(n \div 2) \o Zeros(n - n \div 2)

Chunk(id, size, body) ==
    id \o U32LE(size) \o body \o (IF Len(body) % 2 = 1 THEN <<0>> ELSE <<>>)

\* How a file holds the table it is odd in: whole (two records), absent, empty
\* (size 0), long (two records in the file, the declared size one byte more
\* than one record) or ragged (the declared size and the data two bytes more
\* than one record, the next chunk right after them).
Variants == {"whole", "absent", "empty", "long", "ragged"}

TableChunk(key, variant) ==
    CASE variant = "whole" ->
             Chunk(FourCC[key], 2 * RecSize[key], Zeros(2 * RecSize[key]))
      [] variant = "absent" -> <<>>
      [] variant = "empty" -> Chunk(FourCC[key], 0, <<>>)
      [] variant = "long" ->
             Chunk(FourCC[key], RecSize[key] + 1, Zeros(2 * RecSize[key]))
      [] variant = "ragged" ->
             Chunk(FourCC[key], RecSize[key] + 2, Zeros(RecSize[key] + 2))

\* the pdta sub-chunks in file order, table `odd` held as `variant`
RECURSIVE PdtaBody(_, _, _)
PdtaBody(keys, odd, variant) ==
    IF keys = <<>> THEN <<>>
    ELSE TableChunk(Head(keys), IF Head(keys) = odd THEN variant ELSE "whole")
         \o PdtaBody(Tail(keys), odd, variant)

TableOrder == <<"phdr", "pbag", "pmod", "pgen", "inst", "ibag", "imod", "igen", "shdr">>

\* A file: signature, form type, an INFO list, an sdta list with a pool of
\* smplSize bytes, a chunk of no known kind, and a pdta list whose declared
\* size is `cut` bytes less than its sub-chunks take.
RiffFile(sig, form, odd, variant, cut, smplSize) ==
    LET info == FourCC.INFO \o Chunk(<<105, 102, 105, 108>>, 3, <<71, 66, 75>>)
        sdta == FourCC.sdta \o Chunk(FourCC.smpl, smplSize, Zeros(smplSize))
        pdta == FourCC.pdta \o PdtaBody(TableOrder, odd, variant)
        body == Chunk(FourCC.LIST, Len(info), info)
                \o Chunk(FourCC.LIST, Len(sdta), sdta)
                \o Chunk(<<74, 85, 78, 75>>, 2, <<0, 0>>)
                \o Chunk(FourCC.LIST, Len(pdta) - cut, pdta)
    IN  sig \o U32LE(4 + Len(body)) \o form \o body

\* The parser on its own: a file, how it was made, and what parseSF2 made of it.
RiffInit ==
    /\ Constructed
    /\ envelope = Null
    /\ playhead = Null
    /\ sf2 = Null
    /\ synth = Null
    /\ dsp = Null
    /\ calls = Null
    /\ pcm = Null
    /\ cursor = Null
    /\ twins = Null
    /\ loader = Null
    /\ midi = Null
    /\ \E sig \in {FourCC.RIFF, <<82, 73, 70, 88>>},
          form \in {FourCC.sfbk, <<87, 65, 86, 69>>},
          odd \in {Required[k] : k \in 1..Len(Required)},
          variant \in Variants, cut \in {0, 2}, smplSize \in {8, 7} :
          riff = [u8 |-> RiffFile(sig, form, odd, variant, cut, smplSize),
                  odd |-> odd, variant |-> variant, cut |-> cut,
                  call |-> "none",
                  result |-> [threw |-> "", halts |-> TRUE, bank |-> Null,
                              log |-> <<>>, chunks |-> <<>>]]

\* parseSF2(u8)
ParseSF2 ==
    /\ riff.call = "none"
    /\ riff' = [riff EXCEPT !.call = "parseSF2", !.result = parseSF2Chunks(riff.u8)]
    /\ UNCHANGED <<processor, envelope, playhead, sf2, synth, dsp, calls, pcm, cursor, twins, loader, midi>>

RiffNext == ParseSF2

RiffSpec == RiffInit /\ [][RiffNext]_vars

\* Files with one chunk of an unusual declared length.  The length is given
\* by its four bytes: 0, 1, 2, 200 (past the end of the shorter files),
\* 2^31 - 16, 2^31, 2^32 - 8 and 2^32 - 1.
DeclaredLengths ==
    {<<0, 0, 0, 0>>, <<1, 0, 0, 0>>, <<2, 0, 0, 0>>, <<200, 0, 0, 0>>,
     <<240, 255, 255, 127>>, <<0, 0, 0, 128>>, <<248, 255, 255, 255>>,
     <<255, 255, 255, 255>>}

\* Where the chunk is: a top-level chunk of no known kind, a LIST of no known
\* type, an INFO list, or a sub-chunk of an INFO, sdta or pdta list.
Places == {"top", "list", "infoList", "INFO", "sdta", "pdta"}

\* the lists of a well-formed file
WholeLists == LET u8 == RiffFile(FourCC.RIFF, FourCC.sfbk, "phdr", "whole", 0, 8)
              IN  SubSeq(u8, 13, Len(u8))

LengthFile(place, length, rest) ==
    LET junk == <<74, 85, 78, 75>>
        Sub(listType) == FourCC.LIST \o U32LE(16) \o listType
                         \o junk \o length \o Zeros(4)
        body == CASE place = "top" -> junk \o length \o Zeros(2)
                  [] place = "list" -> FourCC.LIST \o length \o junk
                  [] place = "infoList" ->
                         FourCC.LIST \o length \o FourCC.INFO
                         \o Chunk(<<105, 102, 105, 108>>, 3, <<71, 66, 75>>)
                  [] place = "INFO" -> Sub(FourCC.INFO)
                  [] place = "sdta" -> Sub(FourCC.sdta)
                  [] place = "pdta" -> Sub(FourCC.pdta)
    IN  FourCC.RIFF \o U32LE(4 + Len(body) + Len(rest)) \o FourCC.sfbk \o body \o rest

\* The parser on a file with such a chunk, alone or before the lists of a
\* well-formed file.
LengthsInit ==
    /\ Constructed
    /\ envelope = Null
    /\ playhead = Null
    /\ sf2 = Null
    /\ synth = Null
    /\ dsp = Null
    /\ calls = Null
    /\ pcm = Null
    /\ cursor = Null
    /\ twins = Null
    /\ loader = Null
    /\ midi = Null
    /\ \E place \in Places, length \in DeclaredLengths, rest \in {<<>>, WholeLists} :
          riff = [u8 |-> LengthFile(place, length, rest),
                  place |-> place, length |-> length, whole |-> rest # <<>>,
                  call |-> "none",
                  result |-> [threw |-> "", halts |-> TRUE, bank |-> Null,
                              log |-> <<>>, chunks |-> <<>>]]

LengthsNext == ParseSF2

LengthsSpec == LengthsInit /\ [][LengthsNext]_vars

\* ------------------------------------------------------------------ regions without sample data
\* A setPreset message carries what its sender put in it.  What a region holds
\* of its sample: the record with its buffer ("whole"), no sample property
\* ("noSample"), a record without dataL ("noDataL"), or a record without
\* dataL and without end ("bare"); everything else is as in RegionTable.
Shapes == {"whole", "noSample", "noDataL", "bare"}

\* makeVoice: sample.start of an undefined sample, and sample.dataL.length of
\* an undefined dataL when sample.end is absent, throw a TypeError
makeVoiceThrows(shape) == shape \in {"noSample", "bare"}

\* readSampleMono(v.dataL, v.pos): data[i] of an undefined data throws a
\* TypeError
readSampleMonoThrows(shape) == shape = "noDataL"

\* onMsg (noteOn), second loop, on such regions: ensurePolyphony, then push
\* makeVoice, whose throw ends the handler
RECURSIVE AllocLoopOn(_, _, _, _, _, _)
AllocLoopOn(shapes, pool, matching, note, velocity, id) ==
    IF matching = <<>> THEN [threw |-> "", pool |-> pool]
    ELSE IF makeVoiceThrows(shapes[Head(matching)])
    THEN [threw |-> "TypeError", pool |-> ensurePolyphony(pool)]
    ELSE AllocLoopOn(shapes,
                     Append(ensurePolyphony(pool),
                            makeVoice(Head(matching), note, velocity, id)),
                     Tail(matching), note, velocity, id + 1)

\* process, one output frame on such voices: the voice loop up to the read of
\* the sample, whose throw ends process
RECURSIVE VoiceLoopOn(_, _, _)
VoiceLoopOn(shapes, pool, vi) ==
    IF vi < 1 THEN [threw |-> "", pool |-> pool]
    ELSE IF Dropped(pool[vi]) THEN VoiceLoopOn(shapes, Splice(pool, vi), vi - 1)
    ELSE IF readSampleMonoThrows(shapes[pool[vi].region])
    THEN [threw |-> "TypeError",
          pool |-> Store(pool, vi, [pool[vi] EXCEPT !.modEnv = modEnvNext(@),
                                                    !.rate = pool[vi].baseRate])]
    ELSE VoiceLoopOn(shapes, Store(pool, vi, RenderVoice(pool[vi])), vi - 1)

\* The processor with the preset <<1, 2, 5>> installed, each of its regions in
\* one of the shapes: the pool, the call made last, what it threw, the regions
\* a noteOn matched and the pool it found, and the notes played so far.
SynthInit ==
    /\ Constructed
    /\ envelope = Null
    /\ playhead = Null
    /\ sf2 = Null
    /\ riff = Null
    /\ dsp = Null
    /\ calls = Null
    /\ pcm = Null
    /\ cursor = Null
    /\ twins = Null
    /\ loader = Null
    /\ midi = Null
    /\ \E s1 \in Shapes, s2 \in Shapes, s5 \in Shapes :
          synth = [shapes |-> [r \in 1..5 |-> IF r = 1 THEN s1 ELSE IF r = 2 THEN s2
                                              ELSE IF r = 5 THEN s5 ELSE "whole"],
                   regions |-> <<1, 2, 5>>, pool |-> <<>>, call |-> "setPreset",
                   threw |-> "", matching |-> <<>>, before |-> <<>>,
                   nextId |-> 1, notes |-> 0]

\* onMsg({type: "noteOn", note, velocity})
SynthNoteOn(note, velocity) ==
    /\ synth.call # "process" \/ synth.threw = ""
    /\ synth.notes < MaxNotes
    /\ LET matching == pickRegions(synth.regions, note, velocity)
           res == AllocLoopOn(synth.shapes, ChokeLoop(synth.pool, matching),
                              matching, note, velocity, synth.nextId)
       IN  synth' = [synth EXCEPT !.call = "noteOn", !.threw = res.threw,
                                  !.pool = res.pool, !.matching = matching,
                                  !.before = synth.pool,
                                  !.nextId = @ + Len(matching),
                                  !.notes = @ + 1]
    /\ UNCHANGED <<processor, envelope, playhead, sf2, riff, dsp, calls, pcm, cursor, twins, loader, midi>>

\* process, one output frame; a processor whose process threw is not called
\* again
SynthProcess ==
    /\ synth.call # "process" \/ synth.threw = ""
    /\ LET res == VoiceLoopOn(synth.shapes, synth.pool, Len(synth.pool))
       IN  synth' = [synth EXCEPT !.call = "process", !.threw = res.threw,
                                  !.pool = res.pool, !.before = synth.pool]
    /\ UNCHANGED <<processor, envelope, playhead, sf2, riff, dsp, calls, pcm, cursor, twins, loader, midi>>

SynthNext ==
    \/ \E k \in NoteOns : SynthNoteOn(k[1], k[2])
    \/ SynthProcess

SynthSpec == SynthInit /\ [][SynthNext]_vars

\* ------------------------------------------------------------------ the DSP layer's initialisation
\* dsp-wasm-wrapper.js keeps dspModule and dspReady; initDSP() loads the
\* factory and awaits it (inits counts the calls waiting), then sets both.
\* sf2-processor.js, evaluated by audioWorklet.addModule, takes dspModule from
\* its global scope, throws if there is none, and otherwise goes on to
\* registerProcessor; only a registered processor is constructed, gets
\* messages and renders.  What the worklet's global scope holds as dspModule
\* is given from outside: nothing, null, or the initialised module.
\* Calls of one kind (initDSP waiting, notes, blocks) in a run of the layer.
MaxCalls == 2

DSPModule == <<"DSPModule">>
Undefined_dspModule == <<"undefined">>
Globals == {Undefined_dspModule, Null, DSPModule}

\* the check at the head of sf2-processor.js, were it to test the flag alone
loadThrows_FlagOnly(global) ==
    LET dspReady == global # Undefined_dspModule
    IN  ~dspReady

\* the head of sf2-processor.js: whether evaluating the module throws
loadThrows(global) ==
    LET dspModule == IF global # Undefined_dspModule THEN global ELSE Null
        dspReady == global # Undefined_dspModule
    IN  ~dspReady \/ dspModule = Null

DspInit ==
    /\ Constructed
    /\ envelope = Null
    /\ playhead = Null
    /\ sf2 = Null
    /\ riff = Null
    /\ synth = Null
    /\ calls = Null
    /\ pcm = Null
    /\ cursor = Null
    /\ twins = Null
    /\ loader = Null
    /\ midi = Null
    /\ \E global \in Globals :
          dsp = [dspModule |-> Null, dspReady |-> FALSE, inits |-> 0,
                 global |-> global, processor |-> "none", workletModule |-> Null,
                 voices |-> 0, blocks |-> 0,
                 call |-> "none", threw |-> "", returned |-> Null, wasReady |-> FALSE]

Called(name, threw, returned) ==
    [dsp EXCEPT !.call = name, !.threw = threw, !.returned = returned,
                !.wasReady = dsp.dspReady]

\* initDSP() up to its first await: a ready layer is returned at once
InitDSP ==
    /\ dsp.inits < MaxCalls
    /\ dsp' = IF dsp.dspReady THEN Called("initDSP", "", dsp.dspModule)
              ELSE [Called("initDSP", "", Null) EXCEPT !.inits = @ + 1]
    /\ UNCHANGED <<processor, envelope, playhead, sf2, riff, synth, calls, pcm, cursor, twins, loader, midi>>

\* initDSP() after its awaits: the fetch or the factory failed and the error
\* is thrown on, or the module is stored and the flag set
InitDSPDone(ok) ==
    /\ dsp.inits > 0
    /\ dsp' = IF ok
              THEN [Called("initDSP done", "", DSPModule)
                       EXCEPT !.inits = @ - 1, !.dspModule = DSPModule,
                              !.dspReady = TRUE]
              ELSE [Called("initDSP done", "Error", Null) EXCEPT !.inits = @ - 1]
    /\ UNCHANGED <<processor, envelope, playhead, sf2, riff, synth, calls, pcm, cursor, twins, loader, midi>>

\* getDSPModule()
GetDSPModule ==
    /\ dsp' = IF ~dsp.dspReady
              THEN Called("getDSPModule", "DSP module not initialized", Null)
              ELSE Called("getDSPModule", "", dsp.dspModule)
    /\ UNCHANGED <<processor, envelope, playhead, sf2, riff, synth, calls, pcm, cursor, twins, loader, midi>>

\* audioWorklet.addModule(sf2-processor.js): the module body runs once
LoadProcessor ==
    /\ dsp.processor = "none"
    /\ dsp' = IF loadThrows(dsp.global)
              THEN [Called("addModule", "WASM DSP module not initialized", Null)
                       EXCEPT !.processor = "refused"]
              ELSE [Called("addModule", "", Null)
                       EXCEPT !.processor = "registered",
                              !.workletModule = dsp.global]
    /\ UNCHANGED <<processor, envelope, playhead, sf2, riff, synth, calls, pcm, cursor, twins, loader, midi>>

\* a noteOn that makes a voice, on a processor that was registered
DspNoteOn ==
    /\ dsp.processor = "registered"
    /\ dsp.voices < MaxCalls
    /\ dsp' = [Called("noteOn", "", Null) EXCEPT !.voices = @ + 1]
    /\ UNCHANGED <<processor, envelope, playhead, sf2, riff, synth, calls, pcm, cursor, twins, loader, midi>>

\* process() of a processor that was registered
DspProcess ==
    /\ dsp.processor = "registered"
    /\ dsp.blocks < MaxCalls
    /\ dsp' = [Called("process", "", Null) EXCEPT !.blocks = @ + 1]
    /\ UNCHANGED <<processor, envelope, playhead, sf2, riff, synth, calls, pcm, cursor, twins, loader, midi>>

DspNext ==
    \/ InitDSP
    \/ \E ok \in BOOLEAN : InitDSPDone(ok)
    \/ GetDSPModule
    \/ LoadProcessor
    \/ DspNoteOn
    \/ DspProcess

DspSpec == DspInit /\ [][DspNext]_vars

\* ------------------------------------------------------------------ initDSP calls under way
\* initDSP() is an async function: a call runs to its first await (the fetch
\* of dsp.js, followed by the imports of the loader), goes on when the fetch
\* has resolved and calls the factory, and goes on again when the factory's
\* promise has resolved.  Other calls run in between.  Every factory call
\* makes a module instance of its own, <<k>> for the k-th call.
MaxCallers == 3
Callers == 1..MaxCallers

RECURSIVE Rep(_, _)
Rep(n, x) == IF n = 0 THEN <<>> ELSE Append(Rep(n - 1, x), x)

LoaderInit ==
    /\ Constructed
    /\ envelope = Null
    /\ playhead = Null
    /\ sf2 = Null
    /\ riff = Null
    /\ synth = Null
    /\ dsp = Null
    /\ calls = Null
    /\ pcm = Null
    /\ cursor = Null
    /\ twins = Null
    /\ midi = Null
    /\ loader = [dspModule |-> Null, dspReady |-> FALSE,
                 pc |-> Rep(MaxCallers, "none"), made |-> Rep(MaxCallers, Null),
                 result |-> Rep(MaxCallers, Null),
                 factoryCalls |-> 0, failedLoads |-> 0,
                 last |-> [op |-> "none", caller |-> 0, wasReady |-> FALSE]]

\* what the call did last, and the flag before it
Step(op, c) == [op |-> op, caller |-> c, wasReady |-> loader.dspReady]

\* initDSP(), up to the first await: if (dspReady) return dspModule
InitDSPCall(c) ==
    /\ loader.pc[c] = "none"
    /\ loader' = IF loader.dspReady
                 THEN [loader EXCEPT !.pc = Store(@, c, "returned"),
                                     !.result = Store(@, c, loader.dspModule),
                                     !.last = Step("call", c)]
                 ELSE [loader EXCEPT !.pc = Store(@, c, "fetch"),
                                     !.last = Step("call", c)]
    /\ UNCHANGED <<processor, envelope, playhead, sf2, riff, synth, dsp, calls, pcm,
                   cursor, twins, midi>>

\* initDSP(), from the fetch to await dspFactory(...): the fetch or the
\* import failed, or no factory was found, and the error is thrown on; or
\* the factory is called
InitDSPFetched(c, ok) ==
    /\ loader.pc[c] = "fetch"
    /\ loader' = IF ok
                 THEN [loader EXCEPT !.pc = Store(@, c, "factory"),
                                     !.made = Store(@, c, <<loader.factoryCalls + 1>>),
                                     !.factoryCalls = @ + 1,
                                     !.last = Step("factory", c)]
                 ELSE [loader EXCEPT !.pc = Store(@, c, "threw"),
                                     !.last = Step("threw", c)]
    /\ UNCHANGED <<processor, envelope, playhead, sf2, riff, synth, dsp, calls, pcm,
                   cursor, twins, midi>>

\* initDSP(), after await dspFactory(...): dspModule = the instance, dspReady
\* = true, return dspModule; or the factory's promise was rejected and the
\* error is thrown on
InitDSPLoaded(c, ok) ==
    /\ loader.pc[c] = "factory"
    /\ loader' = IF ok
                 THEN [loader EXCEPT !.dspModule = loader.made[c],
                                     !.dspReady = TRUE,
                                     !.pc = Store(@, c, "returned"),
                                     !.result = Store(@, c, loader.made[c]),
                                     !.last = Step("loaded", c)]
                 ELSE [loader EXCEPT !.pc = Store(@, c, "threw"),
                                     !.failedLoads = @ + 1,
                                     !.last = Step("threw", c)]
    /\ UNCHANGED <<processor, envelope, playhead, sf2, riff, synth, dsp, calls, pcm,
                   cursor, twins, midi>>

LoaderNext ==
    \/ \E c \in Callers : InitDSPCall(c)
    \/ \E c \in Callers, ok \in BOOLEAN : InitDSPFetched(c, ok)
    \/ \E c \in Callers, ok \in BOOLEAN : InitDSPLoaded(c, ok)

LoaderSpec == LoaderInit /\ [][LoaderNext]_vars

\* ------------------------------------------------------------------ the MIDI timer worker
\* The worker that plays a MIDI file: a song is loaded and the ports of its
\* tracks are attached; play, pause, seek and setTrackPreset messages arrive,
\* the clock runs, and the timer calls runTick.  Times are counted in 0.01 s.
\* The set of sounding notes of a track (state.active) and the tick messages
\* are left out.
\* const lookahead = nowSec + 0.03
Lookahead == 3

Event(sec, seq, type) == [sec |-> sec, seq |-> seq, type |-> type]

\* playEvents.sort((a, b) => (a.sec - b.sec) || (a.seq - b.seq))
Before(a, b) == a.sec < b.sec \/ (a.sec = b.sec /\ a.seq < b.seq)

RECURSIVE Insert(_, _)
Insert(sorted, e) ==
    IF sorted = <<>> THEN <<e>>
    ELSE IF Before(e, Head(sorted)) THEN <<e>> \o sorted
    ELSE <<Head(sorted)>> \o Insert(Tail(sorted), e)

RECURSIVE SortEvents(_)
SortEvents(events) ==
    IF events = <<>> THEN <<>>
    ELSE Insert(SortEvents(SubSeq(events, 1, Len(events) - 1)), events[Len(events)])

\* parseMidiBuffer: the song of a file whose tracks hold these events
Song(tracks, durationSec) ==
    [tracks |-> <<[playEvents |-> SortEvents(tracks[1])],
                  [playEvents |-> SortEvents(tracks[2])]>>,
     durationSec |-> durationSec]

\* Two tracks each: events at the same time, a program change first and in
\* the middle of a track, gaps shorter and longer than the lookahead, an
\* empty track.
Songs ==
    {Song(<< <<Event(0, 0, "program"), Event(0, 1, "noteOn"), Event(2, 2, "noteOff"),
               Event(2, 3, "noteOn"), Event(6, 4, "noteOff")>>,
             <<Event(1, 0, "noteOn"), Event(4, 1, "program"), Event(5, 2, "noteOff")>> >>,
          6),
     Song(<< <<Event(3, 0, "noteOn"), Event(3, 1, "noteOff"), Event(8, 2, "program")>>,
             <<>> >>,
          8)}

\* startSec of play and sec of seek: absent (0), before the start, within the
\* song, beyond its end
Positions == {-1, 0, 3, 5, 99}

\* the state of a track: next event, override flag, and whether it has a port
TrackState(nextEventIndex, override, port) ==
    [nextEventIndex |-> nextEventIndex, override |-> override, port |-> port]

\* The record keeps the message or call handled last, the tracks' next-event
\* indexes before it, and for each track what was posted since the last play
\* or seek: the event, the playback time of the runTick that posted it, and
\* where to.
MidiInit ==
    /\ Constructed
    /\ envelope = Null
    /\ playhead = Null
    /\ sf2 = Null
    /\ riff = Null
    /\ synth = Null
    /\ dsp = Null
    /\ calls = Null
    /\ pcm = Null
    /\ cursor = Null
    /\ twins = Null
    /\ loader = Null
    /\ \E song \in Songs, port2 \in BOOLEAN :
          midi = [song |-> song,
                  trackState |-> <<TrackState(0, FALSE, TRUE),
                                   TrackState(0, FALSE, port2)>>,
                  playing |-> FALSE, startSec |-> 0, elapsed |-> 0,
                  posted |-> << <<>>, <<>> >>,
                  call |-> "loadMidi", before |-> <<0, 0>>]

\* startSec + (performance.now() - startPerf) / 1000
NowSec == midi.startSec + midi.elapsed

\* Math.max(0, Math.min(song.durationSec, sec))
ClampSec(sec) ==
    IF sec > midi.song.durationSec THEN midi.song.durationSec
    ELSE IF sec < 0 THEN 0 ELSE sec

\* track.playEvents.findIndex((e) => e.sec >= sec), or the length
RECURSIVE FindIndex(_, _, _)
FindIndex(playEvents, sec, i) ==
    IF i >= Len(playEvents) THEN Len(playEvents)
    ELSE IF playEvents[i + 1].sec >= sec THEN i
    ELSE FindIndex(playEvents, sec, i + 1)

\* play and seek: every track is put at the first event at or after sec
Reposition(sec) ==
    <<[midi.trackState[1] EXCEPT
          !.nextEventIndex = FindIndex(midi.song.tracks[1].playEvents, sec, 0)],
      [midi.trackState[2] EXCEPT
          !.nextEventIndex = FindIndex(midi.song.tracks[2].playEvents, sec, 0)]>>

Indexes == <<midi.trackState[1].nextEventIndex, midi.trackState[2].nextEventIndex>>

\* onmessage, msg.type === "play"
Play(startSec) ==
    /\ midi' = [midi EXCEPT !.startSec = ClampSec(startSec), !.elapsed = 0,
                            !.trackState = Reposition(ClampSec(startSec)),
                            !.playing = TRUE,
                            !.posted = << <<>>, <<>> >>,
                            !.call = "play", !.before = Indexes]
    /\ UNCHANGED <<processor, envelope, playhead, sf2, riff, synth, dsp, calls, pcm,
                   cursor, twins, loader>>

\* onmessage, msg.type === "seek"
Seek(sec) ==
    /\ midi' = [midi EXCEPT !.startSec = ClampSec(sec), !.elapsed = 0,
                            !.trackState = Reposition(ClampSec(sec)),
                            !.posted = << <<>>, <<>> >>,
                            !.call = "seek", !.before = Indexes]
    /\ UNCHANGED <<processor, envelope, playhead, sf2, riff, synth, dsp, calls, pcm,
                   cursor, twins, loader>>

\* onmessage, msg.type === "pause": pauseInternal
Pause ==
    /\ midi.playing
    /\ midi' = [midi EXCEPT !.playing = FALSE, !.call = "pause", !.before = Indexes]
    /\ UNCHANGED <<processor, envelope, playhead, sf2, riff, synth, dsp, calls, pcm,
                   cursor, twins, loader>>

\* onmessage, msg.type === "setTrackPreset": setTrackPreset
SetTrackPreset(trackIndex, override) ==
    /\ midi.trackState[trackIndex + 1].port
    /\ midi' = [midi EXCEPT !.trackState =
                                Store(@, trackIndex + 1,
                                      [midi.trackState[trackIndex + 1]
                                          EXCEPT !.override = override]),
                            !.call = "setTrackPreset", !.before = Indexes]
    /\ UNCHANGED <<processor, envelope, playhead, sf2, riff, synth, dsp, calls, pcm,
                   cursor, twins, loader>>

\* performance.now() moves on by 0.01 s; the song has ended by then at the
\* latest when the clock is past its duration
Elapse ==
    /\ midi.playing
    /\ NowSec <= midi.song.durationSec
    /\ midi' = [midi EXCEPT !.elapsed = @ + 1, !.call = "elapse", !.before = Indexes]
    /\ UNCHANGED <<processor, envelope, playhead, sf2, riff, synth, dsp, calls, pcm,
                   cursor, twins, loader>>

\* runTick without the test against the lookahead
Due_Always(ev, nowSec) == ev.sec <= nowSec + 100 * Lookahead

\* if (ev.sec > lookahead) break
Due(ev, nowSec) == ev.sec <= nowSec + Lookahead

\* runTick, the while loop of one track: the state of the track and what it
\* has posted
RECURSIVE TrackLoop(_, _, _, _)
TrackLoop(playEvents, state, posted, nowSec) ==
    IF state.nextEventIndex >= Len(playEvents) THEN [state |-> state, posted |-> posted]
    ELSE LET ev == playEvents[state.nextEventIndex + 1]
             to == IF ev.type = "program"
                   THEN (IF ~state.override THEN "programChangeRequest" ELSE "none")
                   ELSE "port"
         IN  IF ~Due(ev, nowSec) THEN [state |-> state, posted |-> posted]
             ELSE TrackLoop(playEvents,
                            [state EXCEPT !.nextEventIndex = @ + 1],
                            Append(posted, [ev |-> ev, at |-> nowSec, to |-> to,
                                            override |-> state.override]),
                            nowSec)

\* runTick, one track: a track without a port is passed over
TrackTick(i) ==
    IF ~midi.trackState[i].port
    THEN [state |-> midi.trackState[i], posted |-> midi.posted[i]]
    ELSE TrackLoop(midi.song.tracks[i].playEvents, midi.trackState[i], midi.posted[i],
                   NowSec)

\* runTick, called by the timer while the song plays
RunTick ==
    /\ midi.playing
    /\ midi' = [midi EXCEPT !.trackState = <<TrackTick(1).state, TrackTick(2).state>>,
                            !.posted = <<TrackTick(1).posted, TrackTick(2).posted>>,
                            !.playing = ~(NowSec >= midi.song.durationSec),
                            !.call = "runTick", !.before = Indexes]
    /\ UNCHANGED <<processor, envelope, playhead, sf2, riff, synth, dsp, calls, pcm,
                   cursor, twins, loader>>

MidiNext ==
    \/ \E startSec \in Positions : Play(startSec)
    \/ \E sec \in Positions : Seek(sec)
    \/ Pause
    \/ \E trackIndex \in {0, 1}, override \in BOOLEAN :
          SetTrackPreset(trackIndex, override)
    \/ Elapse
    \/ RunTick

MidiSpec == MidiInit /\ [][MidiNext]_vars

\* ------------------------------------------------------------------ decoding the sample pool
\* An element of a Float32Array is a float, <<m, e>> for m * 2^e with m odd,
\* or <<0, 0>>.  Storing a number rounds it to the nearest float, ties to
\* even.  The numbers stored here are quotients n / d of integers below 2^24
\* in size, which the double division gives to within 2^-53: too close to
\* move the nearest float.
RECURSIVE OddFloat(_, _)
OddFloat(m, e) ==
    IF m = 0 THEN <<0, 0>>
    ELSE IF m % 2 = 0 THEN OddFloat(m \div 2, e + 1) ELSE <<m, e>>

\* the quotient a / b to `bits` significant bits: q the bits so far (last bit
\* worth 2^e), r the remainder
RECURSIVE RoundTo(_, _, _, _, _)
RoundTo(bits, q, r, b, e) ==
    IF r = 0 THEN <<q, e>>
    ELSE IF q >= Pow2(bits - 1)
    THEN IF 2 * r > b \/ (2 * r = b /\ q % 2 = 1) THEN <<q + 1, e>> ELSE <<q, e>>
    ELSE RoundTo(bits, 2 * q + (IF 2 * r >= b THEN 1 ELSE 0), (2 * r) % b, b, e - 1)

\* a store that keeps 11 significant bits
fround_Half(n, d) ==
    LET q == RoundTo(11, Abs(n) \div d, Abs(n) % d, d, 0)
    IN  OddFloat((IF n < 0 THEN -1 ELSE 1) * q[1], q[2])

\* out[i] = n / d in a Float32Array: 24 significant bits
fround(n, d) ==
    LET q == RoundTo(24, Abs(n) \div d, Abs(n) % d, d, 0)
    IN  OddFloat((IF n < 0 THEN -1 ELSE 1) * q[1], q[2])

\* int16ToFloat32, the peak of the slice
RECURSIVE Peak(_, _, _)
Peak(i16, i, end) ==
    IF i >= end THEN 0 ELSE Max(Abs(i16[i + 1]), Peak(i16, i + 1, end))

\* int16ToFloat32, the loop that fills out: (i16[start + i] / 32768) / scale
\* with scale = denom / 32768
RECURSIVE FillFloats(_, _, _, _)
FillFloats(i16, i, end, denom) ==
    IF i >= end THEN <<>>
    ELSE <<fround(i16[i + 1], denom)>> \o FillFloats(i16, i + 1, end, denom)

\* int16ToFloat32: the elements of the new Float32Array
int16ToFloat32(i16, start, end, normalize) ==
    FillFloats(i16, start, end,
               IF normalize /\ Peak(i16, start, end) > 0
               THEN Peak(i16, start, end) ELSE 32768)

\* a decoding that hands out a view of the pool's buffer
decodeSampleData_View(smpl, range, opts, buffer) ==
    [threw |-> "",
     dataL |-> <<[buffer |-> smpl.buffer,
                  data |-> int16ToFloat32(smpl.data, range.start, range.end,
                                          opts.normalize)]>>]

\* decodeSampleData for a sample header without a link (dataR is null): what
\* it throws, and dataL as the buffer it lives in and its elements; buffer
\* names the buffer a new array gets
decodeSampleData(smpl, range, opts, buffer) ==
    IF ~opts.decodeToFloat32
    THEN [threw |-> "decodeToFloat32=false not implemented in this minimal parser",
          dataL |-> Null]
    ELSE [threw |-> "",
          dataL |-> <<[buffer |-> buffer,
                       data |-> int16ToFloat32(smpl.data, range.start, range.end,
                                               opts.normalize)]>>]

\* the regions with their sample data, the k-th new array in buffer + k
RECURSIVE DecodeRegions(_, _, _, _)
DecodeRegions(smpl, regs, opts, buffer) ==
    IF regs = <<>> THEN <<>>
    ELSE <<[region |-> Head(regs),
            dataL |-> decodeSampleData(smpl, Head(regs).range, opts, buffer + 1).dataL[1]]>>
         \o DecodeRegions(smpl, Tail(regs), opts, buffer + 1)

\* buildRegionsForPreset(sf2, presetIndex, options): the first zone that
\* reaches decodeSampleData throws if decodeToFloat32 is false
buildRegionsWith(bank, smpl, presetIndex, options, buffer) ==
    LET r == buildRegionsForPreset(bank, presetIndex)
    IN  IF ~options.decodeToFloat32 /\ r.made # <<>>
        THEN [threw |-> decodeSampleData(smpl, r.made[1].range, options, buffer).threw,
              regions |-> <<>>]
        ELSE IF r.threw # "" THEN [threw |-> r.threw, regions |-> <<>>]
        ELSE [threw |-> "", regions |-> DecodeRegions(smpl, r.regions, options, buffer)]

\* options of buildRegionsForPreset (the banks here have no linked samples, so
\* includeStereoLinks changes nothing)
Options ==
    {[decodeToFloat32 |-> TRUE, normalize |-> TRUE],
     [decodeToFloat32 |-> TRUE, normalize |-> FALSE],
     [decodeToFloat32 |-> FALSE, normalize |-> TRUE]}

\* the 12 frames of the sample pool
PoolData == <<0, 16384, -32768, 32767, 1, -1, 255, -256, 12345, -12345, 3, 0>>

\* A bank and the builds made from it: the bank as parsed and as it is now,
\* the pool (an Int16Array on the file's buffer, buffer 0), the build made
\* last and the one before it, the buffers allocated and the builds so far.
CallsInit ==
    /\ Constructed
    /\ envelope = Null
    /\ playhead = Null
    /\ sf2 = Null
    /\ riff = Null
    /\ synth = Null
    /\ dsp = Null
    /\ pcm = Null
    /\ cursor = Null
    /\ twins = Null
    /\ loader = Null
    /\ midi = Null
    /\ \E g1 \in BOOLEAN, ix \in {0, 2}, sid \in {1, 2}, so \in StartOffsets :
          LET f == File(g1, TRUE, 15420, ix, sid, <<0, 0>>, so, 0)
          IN  calls = [parsed |-> parseSF2(f.presets, f.insts, f.shdr, f.smplLength),
                       bank |-> parseSF2(f.presets, f.insts, f.shdr, f.smplLength),
                       smpl |-> [buffer |-> 0, data |-> PoolData],
                       last |-> Null, prev |-> Null, allocated |-> 0, builds |-> 0]

\* sf2.buildRegionsForPreset(presetIndex, options); nothing in the call
\* assigns to the bank or to the pool
BuildRegionsWith(presetIndex, options) ==
    /\ calls.builds < MaxCalls
    /\ LET made == buildRegionsForPreset(calls.bank, presetIndex).made
       IN  calls' = [calls EXCEPT
                 !.prev = calls.last,
                 !.last = <<[presetIndex |-> presetIndex, options |-> options,
                             result |-> buildRegionsWith(calls.bank, calls.smpl,
                                            presetIndex, options, calls.allocated)]>>,
                 !.allocated = @ + (IF options.decodeToFloat32 THEN Len(made) ELSE 0),
                 !.builds = @ + 1]
    /\ UNCHANGED <<processor, envelope, playhead, sf2, riff, synth, dsp, pcm, cursor, twins, loader, midi>>

CallsNext ==
    \E presetIndex \in PresetIndexes, options \in Options :
        BuildRegionsWith(presetIndex, options)

CallsSpec == CallsInit /\ [][CallsNext]_vars

\* A slice of 16-bit samples, decoded: every value alone, and pairs of a few.
PcmInit ==
    /\ Constructed
    /\ envelope = Null
    /\ playhead = Null
    /\ sf2 = Null
    /\ riff = Null
    /\ synth = Null
    /\ dsp = Null
    /\ calls = Null
    /\ cursor = Null
    /\ twins = Null
    /\ loader = Null
    /\ midi = Null
    /\ \E i16 \in {<<v>> : v \in -32768..32767}
                  \cup {<<v, w>> : v, w \in {-32768, -12345, -1, 0, 1, 32767}} :
          pcm = [i16 |-> i16, call |-> "none", normalize |-> FALSE, out |-> <<>>]

\* int16ToFloat32(i16, 0, i16.length, normalize)
Int16ToFloat32(normalize) ==
    /\ pcm.call = "none"
    /\ pcm' = [pcm EXCEPT !.call = "int16ToFloat32", !.normalize = normalize,
                          !.out = int16ToFloat32(pcm.i16, 0, Len(pcm.i16), normalize)]
    /\ UNCHANGED <<processor, envelope, playhead, sf2, riff, synth, dsp, calls, cursor, twins, loader, midi>>

PcmNext == \E normalize \in BOOLEAN : Int16ToFloat32(normalize)

PcmSpec == PcmInit /\ [][PcmNext]_vars

\* ------------------------------------------------------------------ a voice on a resolved region
\* A voice made for a region that buildRegionsForPreset returned, and the
\* frames of process for it: the sample read at the cursor, then advancePos.
\* Numbers of the voice that need not be finite are <<n>> for n, Infinity or
\* NaN.
\* pow(2.0, c / 1200.0) is beyond the largest double from 2^1024 on
PowOverflows(c) == c >= 1200 * 1024

\* regionBaseRate, where the ratio may overflow (the sample rate is not 0)
baseRateOf(region, midiNote) ==
    IF PowOverflows(totalCents(region, midiNote)) THEN Infinity
    ELSE <<regionBaseRate(region, midiNote, sampleRate)>>

\* makeVoice: the playback fields
VoiceCursor(region, midiNote) ==
    [pos |-> <<region.sample.start>>, rate |-> baseRateOf(region, midiNote),
     start |-> region.sample.start, end |-> region.sample.end,
     loopStart |-> region.sample.loopStart, loopEnd |-> region.sample.loopEnd,
     looping |-> region.sampleModes \in {1, 3},
     loopUntilReleaseThenTail |-> region.sampleModes = 3,
     inReleaseTail |-> FALSE, finished |-> FALSE]

\* readSampleMono: the indexes data[i] and data[i + 1] of pos | 0
readSampleMono(pos) ==
    LET i == IF Len(pos) = 1 THEN pos[1] ELSE 0
    IN  <<i, i + 1>>

\* advancePos with a cursor or a rate that is Infinity or NaN: pos + rate is
\* then Infinity or NaN; Infinity >= x holds and Infinity % loopLen is NaN,
\* NaN >= x does not hold
advancePosAt(v) ==
    IF Len(v.pos) = 1 /\ Len(v.rate) = 1
    THEN LET w == advancePos([v EXCEPT !.pos = v.pos[1], !.rate = v.rate[1]])
         IN  [w EXCEPT !.pos = <<w.pos>>, !.rate = <<w.rate>>]
    ELSE LET pos == IF v.pos = NaN \/ v.rate = NaN THEN NaN ELSE Infinity
             effectiveLooping == v.looping /\ ~v.inReleaseTail
             loopLen == v.loopEnd - v.loopStart
         IN  IF effectiveLooping
             THEN IF pos = Infinity
                  THEN IF loopLen > 1 THEN [v EXCEPT !.pos = NaN]
                       ELSE [v EXCEPT !.pos = <<v.loopStart>>]
                  ELSE [v EXCEPT !.pos = pos]
             ELSE IF pos = Infinity THEN [v EXCEPT !.pos = pos, !.finished = TRUE]
                  ELSE [v EXCEPT !.pos = pos]

\* a file of the resolver with a scaleTuning generator in the zones of its
\* instruments
Tuned(f, tuning) ==
    [f EXCEPT !.insts[1][2] = <<G(Gen.scaleTuning, tuning)>> \o @,
              !.insts[1][4] = <<G(Gen.scaleTuning, tuning)>> \o @,
              !.insts[2][1] = <<G(Gen.scaleTuning, tuning)>> \o @]

\* scaleTuning and the note played: the default 100 cents per key at the
\* root, one and two octaves above it, and the largest amount at the root and
\* at key 127
Tunings == {<<100, 60>>, <<100, 72>>, <<100, 84>>, <<32767, 60>>, <<32767, 127>>}

ReadInit ==
    /\ Constructed
    /\ envelope = Null
    /\ playhead = Null
    /\ sf2 = Null
    /\ riff = Null
    /\ synth = Null
    /\ dsp = Null
    /\ calls = Null
    /\ pcm = Null
    /\ twins = Null
    /\ loader = Null
    /\ midi = Null
    /\ \E f \in {g \in Files : g.presets[2][1][1].amount = 15420},
          tn \in Tunings, presetIndex \in {0, 1} :
          LET t == Tuned(f, tn[1])
              built == buildRegionsForPreset(
                           parseSF2(t.presets, t.insts, t.shdr, t.smplLength),
                           presetIndex)
          IN  \E k \in DOMAIN built.regions :
                  cursor = [v |-> VoiceCursor(built.regions[k], tn[2]),
                            call |-> "makeVoice", at |-> Null, read |-> <<>>]

\* one frame of process for the voice, which is dropped once it is finished:
\* the sample is read at the cursor, then the cursor moves on
ReadFrame ==
    /\ ~cursor.v.finished
    /\ cursor' = [v |-> advancePosAt(cursor.v), call |-> "process",
                  at |-> cursor.v.pos, read |-> readSampleMono(cursor.v.pos)]
    /\ UNCHANGED <<processor, envelope, playhead, sf2, riff, synth, dsp, calls, pcm, twins, loader, midi>>

\* noteOff for the voice's note: the release tail of sampleModes 3 begins
ReadRelease ==
    /\ ~cursor.v.finished
    /\ cursor.v.loopUntilReleaseThenTail
    /\ ~cursor.v.inReleaseTail
    /\ cursor' = [cursor EXCEPT !.v.inReleaseTail = TRUE, !.call = "noteOff"]
    /\ UNCHANGED <<processor, envelope, playhead, sf2, riff, synth, dsp, calls, pcm, twins, loader, midi>>

ReadNext ==
    \/ ReadFrame
    \/ ReadRelease

ReadSpec == ReadInit /\ [][ReadNext]_vars

\* ------------------------------------------------------------------ envelopes, on their own
\* the stages next() may leave an envelope in, given the envelope before it
NextMoves(b) ==
    CASE b.stage = "idle" -> {"idle"}
      [] b.stage = "delay" -> {"delay", "attack"}
      [] b.stage = "attack" -> {"attack", IF b.hold > 0 THEN "hold" ELSE "decay"}
      [] b.stage = "hold" -> {"hold", "decay"}
      [] b.stage = "decay" -> {"decay", "sustain"}
      [] b.stage = "sustain" -> {"sustain"}
      [] b.stage = "release" -> {"release", "idle"}

\* C11: for the volume and the modulation envelope alike, next() changes the
\* stage only along delay -> attack -> hold -> decay -> sustain (attack going
\* to decay exactly when hold <= 0) and release -> idle, so it never moves
\* backwards, never leaves sustain or idle and never enters release; noteOff()
\* moves every stage but idle to release and leaves idle idle; noteOn() moves
\* every stage to delay or attack; setFromSf2 leaves the stage alone.
C11_StageMoves ==
    LET b == envelope.before.stage
        a == envelope.env.stage
    IN  /\ envelope.call = "next" => a \in NextMoves(envelope.before)
        /\ envelope.call = "noteOff" => a = (IF b = "idle" THEN "idle" ELSE "release")
        /\ envelope.call = "noteOn" => a \in {"delay", "attack"}
        /\ envelope.call = "setFromSf2" => a = b

\* next() took a volume envelope with no hold time from attack to decay, in a
\* note started while an earlier one was still sounding
C11_Witness ==
    /\ envelope.kind = "vol"
    /\ envelope.call = "next"
    /\ envelope.before.stage = "attack"
    /\ envelope.env.stage = "decay"
    /\ envelope.env.hold = 0
    /\ envelope.notes = 3

\* the level 0.0 of an envelope of the given kind
EnvZero(kind) == IF kind = "vol" THEN Zero ELSE RInt(0)

\* C12: noteOn() sets level 0 and elapsed time 0 and the stage to delay when
\* delay > 0 and to attack otherwise, whatever the stage was; noteOff() on an
\* idle envelope changes nothing; noteOff() in any other stage sets the stage
\* to release, the elapsed time to 0 and the release start to the level the
\* envelope had when it was called.  Neither touches any other field.
C12_NoteOnOff ==
    LET b == envelope.before
        e == envelope.env
    IN  /\ envelope.call = "noteOn" =>
              e = [b EXCEPT !.level = EnvZero(envelope.kind), !.t = 0,
                            !.stage = IF b.delay > 0 THEN "delay" ELSE "attack"]
        /\ envelope.call = "noteOff" /\ b.stage = "idle" => e = b
        /\ envelope.call = "noteOff" /\ b.stage # "idle" =>
              e = [b EXCEPT !.stage = "release", !.t = 0, !.releaseStart = b.level]

\* noteOff() reached a modulation envelope half way down its decay, and the
\* release starts from the level it had there
C12_Witness ==
    /\ envelope.kind = "mod"
    /\ envelope.call = "noteOff"
    /\ envelope.before.stage = "decay"
    /\ envelope.before.t > 0
    /\ envelope.env.stage = "release"
    /\ RLess(RInt(0), envelope.env.releaseStart)
    /\ RLess(envelope.env.releaseStart, RInt(1))

\* the release floor of an envelope of the given kind
ReleaseFloor(kind) == IF kind = "vol" THEN MIN_VOL_RELEASE_SEC ELSE MIN_MOD_RELEASE_SEC

\* the durations setFromSf2 leaves: none negative, release at or above the floor
Floored ==
    /\ envelope.env.release >= ReleaseFloor(envelope.kind)
    /\ envelope.env.delay >= 0
    /\ envelope.env.attack >= 0
    /\ envelope.env.hold >= 0
    /\ envelope.env.decay >= 0

\* next() was called on an envelope that noteOff() had just put into release
FirstReleaseSample ==
    /\ envelope.call = "next"
    /\ envelope.before.stage = "release"
    /\ envelope.before.t = 0

\* C13 (as the code has it): whatever setFromSf2 was given, the release time
\* is at least 0.06 s (volume) or 0.02 s (modulation) and delay, attack, hold
\* and decay are >= 0; after a noteOff in a stage other than idle, the next
\* sample leaves the envelope in release exactly if the sample period is
\* shorter than its release time, which at the model's 50 Hz is every volume
\* envelope (the floor 0.06 s needs a rate above 17 Hz) but not a modulation
\* envelope at its floor (0.02 s needs a rate above 50 Hz).
C13_ReleaseFloor ==
    /\ Floored
    /\ FirstReleaseSample =>
          /\ envelope.env.stage = (IF dt < envelope.before.release
                                   THEN "release" ELSE "idle")
          /\ envelope.kind = "vol" => envelope.env.stage = "release"

\* a volume envelope given a release generator that maps to 0 s has the floor
\* as its release time, was released during its attack, and is in release
\* after the next sample
C13_Witness ==
    /\ envelope.kind = "vol"
    /\ FirstReleaseSample
    /\ envelope.env.release = MIN_VOL_RELEASE_SEC
    /\ envelope.env.attack > dt
    /\ ~IsZero(envelope.env.releaseStart)
    /\ envelope.env.stage = "release"

\* C13 as stated: the floors, and either envelope is still in release after
\* the first sample that follows a noteOff (the model renders at 50 Hz)
C13_ReleaseFloorAsStated ==
    /\ Floored
    /\ FirstReleaseSample => envelope.env.stage = "release"

\* a volume envelope that setFromSf2 gave delay = attack = decay = 0 s and
\* sustainCb = 0 (sustain level 1.0)
Instant ==
    /\ envelope.kind = "vol"
    /\ envelope.call # "create"
    /\ envelope.env.delay = 0
    /\ envelope.env.attack = 0
    /\ envelope.env.decay = 0
    /\ envelope.env.sustain = One

\* noteOn() starts the attack at once; every sample from the first one after
\* noteOn() is at level 1.0, in a stage before release
InstantOn ==
    /\ envelope.call = "noteOn" => envelope.env.stage = "attack"
    /\ envelope.call = "next"
            /\ envelope.before.stage \in {"attack", "hold", "decay", "sustain"} =>
          /\ envelope.env.level = One
          /\ envelope.env.stage \in {"hold", "decay", "sustain"}

\* C14 (as the code has it): a volume envelope configured with delay = attack
\* = decay = 0 s and sustainCb = 0 is at level 1.0 on the sample that follows
\* noteOn() and on every further sample until noteOff(); its release time is
\* never below the floor of 0.06 s, so after noteOff() the level is above 0 on
\* the next sample, and is 0 (stage idle) exactly from the sample at which the
\* release time has elapsed.
C14_Instant ==
    Instant =>
        /\ InstantOn
        /\ envelope.env.release >= MIN_VOL_RELEASE_SEC
        /\ FirstReleaseSample => ~IsZero(envelope.env.level)
        /\ envelope.call = "next" /\ envelope.before.stage = "release" =>
              /\ IsZero(envelope.env.level) <=> envelope.env.stage = "idle"
              /\ envelope.env.stage = "idle" <=> envelope.env.t >= envelope.env.release

\* such an envelope, given a release generator that maps to 0 s, was released
\* at level 1.0 and is still sounding one sample later
C14_Witness ==
    /\ Instant
    /\ FirstReleaseSample
    /\ envelope.env.release = MIN_VOL_RELEASE_SEC
    /\ envelope.env.releaseStart = One
    /\ LvLess(EPS, envelope.env.level)
    /\ envelope.env.stage = "release"

\* C14 as stated: level 1.0 from the first sample after noteOn(), and level 0
\* on the first sample after noteOff()
C14_InstantAsStated ==
    Instant =>
        /\ InstantOn
        /\ FirstReleaseSample => IsZero(envelope.env.level)

ZoneGen(zone, oper) ==
    IF \E k \in 1..Len(zone) : zone[k].oper = oper
    THEN <<zone[CHOOSE k \in 1..Len(zone) : zone[k].oper = oper].amount>>
    ELSE Null

\* presetIndex names a preset of the file (the terminal header is none)
ValidPreset(f, i) == i \in 0..(Len(f.presets) - 1)

\* some zone of preset i names an instrument the file does not have (the
\* terminal record is none)
BadInstrument(f, i) ==
    \E z \in 1..Len(f.presets[i + 1]) :
        /\ ZoneGen(f.presets[i + 1][z], Gen.instrument) # Null
        /\ ZoneGen(f.presets[i + 1][z], Gen.instrument)[1] \notin 0..(Len(f.insts) - 1)

\* C16: buildRegionsForPreset(presetIndex) throws, returns no regions and
\* leaves the parsed bank as it was whenever presetIndex is outside
\* [0, presetCount - 2], and also when a zone of the preset names an
\* instrument outside [0, instrumentCount - 2]; any other call, also one that
\* follows a call that threw, throws nothing, leaves the bank as it was and
\* returns what the call returns on the bank as parsed.
C16_OutOfRange ==
    sf2.call = "buildRegionsForPreset" =>
        LET f == sf2.file
            i == sf2.presetIndex
            fails == ~ValidPreset(f, i) \/ BadInstrument(f, i)
        IN  /\ sf2.bank = sf2.parsed
            /\ Len(sf2.bank.pdta.phdr) = Len(f.presets) + 1
            /\ Len(sf2.bank.pdta.inst) = Len(f.insts) + 1
            /\ fails => sf2.result.threw # "" /\ sf2.result.regions = <<>>
            /\ ~fails =>
                  /\ sf2.result.threw = ""
                  /\ sf2.result = buildRegionsForPreset(sf2.parsed, i)

\* after a call that threw, a call for preset 0 returned regions
C16_Witness ==
    /\ sf2.call = "buildRegionsForPreset"
    /\ sf2.failed
    /\ sf2.presetIndex = 0
    /\ sf2.result.threw = ""
    /\ Len(sf2.result.regions) >= 2

\* the zones of a list that carry the given operator, in order
RECURSIVE SelectZones(_, _)
SelectZones(zones, oper) ==
    IF zones = <<>> THEN <<>>
    ELSE (IF ZoneGen(Head(zones), oper) # Null THEN <<Head(zones)>> ELSE <<>>)
         \o SelectZones(Tail(zones), oper)

\* the global zone of a list: its first zone if that lacks the operator, else
\* a zone without generators
GlobalZone(zones, oper) ==
    IF zones # <<>> /\ ZoneGen(zones[1], oper) = Null THEN zones[1] ELSE <<>>

\* the four levels <<preset-global, preset-zone, instrument-global,
\* instrument-zone>> of every pair of a preset zone with an instrument and a
\* zone of that instrument with a sampleID, in the order of the file
RECURSIVE WithInstZones(_, _, _, _)
WithInstZones(pg, pz, ig, izs) ==
    IF izs = <<>> THEN <<>>
    ELSE <<<<pg, pz, ig, Head(izs)>>>> \o WithInstZones(pg, pz, ig, Tail(izs))

RECURSIVE PairsOf(_, _, _)
PairsOf(f, pg, pzs) ==
    IF pzs = <<>> THEN <<>>
    ELSE LET izs == f.insts[ZoneGen(Head(pzs), Gen.instrument)[1] + 1]
         IN  WithInstZones(pg, Head(pzs), GlobalZone(izs, Gen.sampleID),
                           SelectZones(izs, Gen.sampleID))
             \o PairsOf(f, pg, Tail(pzs))

Pairs(f, i) ==
    PairsOf(f, GlobalZone(f.presets[i + 1], Gen.instrument),
            SelectZones(f.presets[i + 1], Gen.instrument))

\* the generators that take the value of the last level defining them
ReplaceSet ==
    {Gen.keyRange, Gen.velRange, Gen.instrument, Gen.sampleID, Gen.sampleModes,
     Gen.exclusiveClass, Gen.overridingRootKey}

\* the value of generator k over four levels: of the last level that defines
\* it, and the sum over the levels that define it
RECURSIVE LastValue(_, _, _)
LastValue(levels, k, j) ==
    IF ZoneGen(levels[j], k) # Null THEN ZoneGen(levels[j], k)[1]
    ELSE LastValue(levels, k, j - 1)

RECURSIVE SumValue(_, _, _)
SumValue(levels, k, j) ==
    IF j = 0 THEN 0
    ELSE SumValue(levels, k, j - 1)
         + (IF ZoneGen(levels[j], k) # Null THEN ZoneGen(levels[j], k)[1] ELSE 0)

\* the operators some level defines
Opers(levels) ==
    UNION {{levels[j][n].oper : n \in 1..Len(levels[j])} : j \in 1..4}

\* the generators four levels give a region, by the merge rule
Merged(levels) ==
    [k \in Opers(levels) |-> IF k \in ReplaceSet THEN LastValue(levels, k, 4)
                             ELSE SumValue(levels, k, 4)]

\* the pairs whose merged generators make a region (the others are skipped:
\* no such sample header, or no sample frames)
RECURSIVE Yielding(_, _)
Yielding(bank, pairs) ==
    IF pairs = <<>> THEN <<>>
    ELSE (IF makeRegionFromMerged(bank, Merged(Head(pairs))) # <<>>
          THEN <<Head(pairs)>> ELSE <<>>)
         \o Yielding(bank, Tail(pairs))

\* a region shows the generators g in its ranges, class, pan and attenuation
Shows(region, g) ==
    /\ region.keyRange = (IF Gen.keyRange \in DOMAIN g
                          THEN unpackRange(g[Gen.keyRange]) ELSE <<0, 127>>)
    /\ region.velRange = (IF Gen.velRange \in DOMAIN g
                          THEN unpackRange(g[Gen.velRange]) ELSE <<0, 127>>)
    /\ region.exclusiveClass = Get(g, Gen.exclusiveClass, 0)
    /\ region.pan = Get(g, Gen.pan, 0)
    /\ region.initialAttenuationCb = Get(g, Gen.initialAttenuation, 0)

\* a call of buildRegionsForPreset has returned
Built == sf2.call = "buildRegionsForPreset" /\ sf2.result.threw = ""

\* C17: every region returned comes from one instrument zone, and each of its
\* generators has, if it is keyRange, velRange, instrument, sampleID,
\* sampleModes, exclusiveClass or overridingRootKey, the value of the last of
\* preset-global, preset-zone, instrument-global, instrument-zone that defines
\* it, and otherwise the sum of its values over the levels that define it.
C17_Merge ==
    Built =>
        LET yielding == Yielding(sf2.bank, Pairs(sf2.file, sf2.presetIndex))
        IN  /\ Len(sf2.result.regions) = Len(yielding)
            /\ \A k \in 1..Len(yielding) :
                  Shows(sf2.result.regions[k], Merged(yielding[k]))

\* the preset-global zone alone defines pan, as 100, and the region has pan
\* 100; keyRange is defined by the preset-global zone as 0..127 and by the
\* instrument zone as 60..60, and the region has 60..60
C17_Witness ==
    /\ Built
    /\ sf2.presetIndex = 0
    /\ LET yielding == Yielding(sf2.bank, Pairs(sf2.file, 0))
       IN  /\ \E k \in 1..Len(yielding) :
                 /\ ZoneGen(yielding[k][1], Gen.pan) = <<100>>
                 /\ \A j \in 2..4 : ZoneGen(yielding[k][j], Gen.pan) = Null
                 /\ sf2.result.regions[k].pan = 100
           /\ \E k \in 1..Len(yielding) :
                 /\ ZoneGen(yielding[k][1], Gen.keyRange) = <<32512>>
                 /\ ZoneGen(yielding[k][4], Gen.keyRange) = <<15420>>
                 /\ sf2.result.regions[k].keyRange = <<60, 60>>

\* the regions made of the merged generators of the given pairs, in order
RECURSIVE RegionsOf(_, _)
RegionsOf(bank, pairs) ==
    IF pairs = <<>> THEN <<>>
    ELSE makeRegionFromMerged(bank, Merged(Head(pairs))) \o RegionsOf(bank, Tail(pairs))

\* C18: the first zone of a preset is its global zone exactly if it has no
\* instrument generator; a global zone makes no region and its generators go
\* into every region of the preset; a later zone without an instrument makes
\* no region and gives no generators; likewise for an instrument's zones and
\* sampleID.  So the regions returned are, in order, those of the pairs (preset
\* zone with an instrument, zone of that instrument with a sampleID), each
\* merged with the two global zones, and their number is the number of pairs
\* less the pairs skipped as invalid.
C18_Zones ==
    Built =>
        LET pairs == Pairs(sf2.file, sf2.presetIndex)
            skipped == {k \in 1..Len(pairs) :
                            makeRegionFromMerged(sf2.bank, Merged(pairs[k])) = <<>>}
        IN  /\ sf2.result.regions = RegionsOf(sf2.bank, pairs)
            /\ Len(sf2.result.regions) = Len(pairs) - Cardinality(skipped)

\* preset 0 with a global zone, an instrument with a global zone, a later zone
\* without an instrument, and a pair skipped: fewer regions than pairs
C18_Witness ==
    /\ Built
    /\ sf2.presetIndex = 0
    /\ ZoneGen(sf2.file.presets[1][1], Gen.instrument) = Null
    /\ ZoneGen(sf2.file.presets[1][3], Gen.instrument) = Null
    /\ ZoneGen(sf2.file.insts[1][1], Gen.sampleID) = Null
    /\ Len(Pairs(sf2.file, 0)) = 3
    /\ Len(sf2.result.regions) = 2

\* C19: in every region returned, the lower and the upper bound of keyRange
\* and of velRange lie in 0..127, whatever 16-bit amount the bank holds.
C19_RangesInBounds ==
    Built =>
        \A k \in 1..Len(sf2.result.regions) :
            /\ sf2.result.regions[k].keyRange[1] \in 0..127
            /\ sf2.result.regions[k].keyRange[2] \in 0..127
            /\ sf2.result.regions[k].velRange[1] \in 0..127
            /\ sf2.result.regions[k].velRange[2] \in 0..127

\* C20: every region returned has 0 <= loopStart <= loopEnd <= end, end being
\* the number of sample frames (start is 0), and either loopEnd > loopStart + 1
\* or no loop mode with the loop reset to the whole sample; so none has a
\* looping mode (1 or 3) with a loop of at most one frame.
C20_LoopBounds ==
    Built =>
        \A k \in 1..Len(sf2.result.regions) :
            LET r == sf2.result.regions[k]
            IN  /\ r.sample.start = 0
                /\ r.sample.end > 0
                /\ 0 <= r.sample.loopStart
                /\ r.sample.loopStart <= r.sample.loopEnd
                /\ r.sample.loopEnd <= r.sample.end
                /\ \/ r.sample.loopEnd > r.sample.loopStart + 1
                   \/ /\ r.sampleModes = 0
                      /\ r.sample.loopStart = 0
                      /\ r.sample.loopEnd = r.sample.end
                /\ ~(r.sampleModes \in {1, 3}
                        /\ r.sample.loopEnd - r.sample.loopStart <= 1)

\* an instrument zone that inherits sampleModes 1 and whose offsets leave a
\* loop of one frame gave a region without loop mode, its loop the whole sample
C20_Witness ==
    /\ Built
    /\ sf2.presetIndex = 0
    /\ ZoneGen(sf2.file.insts[1][1], Gen.sampleID) = Null
    /\ ZoneGen(sf2.file.insts[1][1], Gen.sampleModes) = <<1>>
    /\ ZoneGen(sf2.file.insts[1][2], Gen.startloopAddrsOffset) = <<3>>
    /\ Len(sf2.result.regions) >= 1
    /\ sf2.result.regions[1].sampleModes = 0
    /\ sf2.result.regions[1].sample.loopStart = 0
    /\ sf2.result.regions[1].sample.loopEnd = 8
    /\ sf2.result.regions[1].sample.end = 8

\* x clamped into [lo, hi]
Clamp(x, lo, hi) == IF x < lo THEN lo ELSE IF x > hi THEN hi ELSE x

\* the header value plus the fine offset plus 32768 times the coarse offset
OffsetSum(base, g, fineOp, coarseOp) ==
    base + Get(g, fineOp, 0) + 32768 * Get(g, coarseOp, 0)

\* the sample header the generators g name (there is one)
HeaderOf(bank, g) == bank.pdta.shdr[g[Gen.sampleID] + 1]
HasHeader(bank, g) ==
    Gen.sampleID \in DOMAIN g /\ At(bank.pdta.shdr, g[Gen.sampleID]) # Null

\* start and end of the zone's sample, were every sum clamped into
\* [0, poolLength]
ClampedStart(bank, g) ==
    Clamp(OffsetSum(HeaderOf(bank, g).start, g, Gen.startAddrsOffset,
                    Gen.startAddrsCoarseOffset), 0, bank.sdta.smpl)
ClampedEnd(bank, g) ==
    Clamp(OffsetSum(HeaderOf(bank, g).end, g, Gen.endAddrsOffset,
                    Gen.endAddrsCoarseOffset), 0, bank.sdta.smpl)

\* the pairs that have a sample header and, with clamped sums, sample frames
RECURSIVE ClampedPairs(_, _)
ClampedPairs(bank, pairs) ==
    IF pairs = <<>> THEN <<>>
    ELSE (IF /\ HasHeader(bank, Merged(Head(pairs)))
             /\ ClampedEnd(bank, Merged(Head(pairs)))
                    > ClampedStart(bank, Merged(Head(pairs)))
          THEN <<Merged(Head(pairs))>> ELSE <<>>)
         \o ClampedPairs(bank, Tail(pairs))

\* C21: start and end of every zone's sample are the header's value plus the
\* fine offset plus 32768 times the coarse offset, clamped into [0,
\* poolLength] (a sum below 0 becoming 0): the zones that then have frames are
\* the ones that give a region, of end - start frames.
C21_OffsetsClamped ==
    Built =>
        LET zones == ClampedPairs(sf2.bank, Pairs(sf2.file, sf2.presetIndex))
        IN  /\ Len(sf2.result.regions) = Len(zones)
            /\ \A k \in 1..Len(zones) :
                  sf2.result.regions[k].sample.end
                      = ClampedEnd(sf2.bank, zones[k]) - ClampedStart(sf2.bank, zones[k])

\* start and end of the zone's sample as the resolver clamps them
ResolvedStart(bank, g) ==
    clampU32(OffsetSum(HeaderOf(bank, g).start, g, Gen.startAddrsOffset,
                       Gen.startAddrsCoarseOffset), 0, bank.sdta.smpl)
ResolvedEnd(bank, g) ==
    clampU32(OffsetSum(HeaderOf(bank, g).end, g, Gen.endAddrsOffset,
                       Gen.endAddrsCoarseOffset), 0, bank.sdta.smpl)

\* the zone has a sample header and its resolved end is not after its start
EmptyZone(bank, g) ==
    HasHeader(bank, g) /\ ResolvedEnd(bank, g) <= ResolvedStart(bank, g)

\* the merged generators of the pairs with a sample header and valid bounds
RECURSIVE ValidZones(_, _)
ValidZones(bank, pairs) ==
    IF pairs = <<>> THEN <<>>
    ELSE (IF /\ HasHeader(bank, Merged(Head(pairs)))
             /\ ResolvedEnd(bank, Merged(Head(pairs)))
                    > ResolvedStart(bank, Merged(Head(pairs)))
          THEN <<Merged(Head(pairs))>> ELSE <<>>)
         \o ValidZones(bank, Tail(pairs))

\* C22: when a preset (in range, its instruments in range) has a zone whose
\* resolved end <= start, the build raises no error and returns exactly the
\* regions of the zones with valid bounds, in zone order: the k-th region has
\* the ranges, class, pan, attenuation and length of the k-th valid zone.
C22_EmptyZoneSkipped ==
    LET pairs == Pairs(sf2.file, sf2.presetIndex)
    IN  (/\ sf2.call = "buildRegionsForPreset"
         /\ ValidPreset(sf2.file, sf2.presetIndex)
         /\ ~BadInstrument(sf2.file, sf2.presetIndex)
         /\ \E k \in 1..Len(pairs) : EmptyZone(sf2.bank, Merged(pairs[k])))
        => LET valid == ValidZones(sf2.bank, pairs)
           IN  /\ sf2.result.threw = ""
               /\ Len(sf2.result.regions) = Len(valid)
               /\ \A k \in 1..Len(valid) :
                     /\ Shows(sf2.result.regions[k], valid[k])
                     /\ sf2.result.regions[k].sample.end
                            = ResolvedEnd(sf2.bank, valid[k])
                              - ResolvedStart(sf2.bank, valid[k])

\* a zone with resolved end <= start stands between two zones with valid
\* bounds, and the build has returned the regions of those two
C22_Witness ==
    /\ Built
    /\ LET pairs == Pairs(sf2.file, sf2.presetIndex)
       IN  \E k \in 2..Len(pairs) - 1 :
              /\ EmptyZone(sf2.bank, Merged(pairs[k]))
              /\ ~EmptyZone(sf2.bank, Merged(pairs[k - 1]))
              /\ ~EmptyZone(sf2.bank, Merged(pairs[k + 1]))
              /\ HasHeader(sf2.bank, Merged(pairs[k - 1]))
              /\ HasHeader(sf2.bank, Merged(pairs[k + 1]))
    /\ Len(sf2.result.regions) = 2

\* ------------------------------------------------------------------ the parser, on its own
\* the file begins with the RIFF signature; its form type is sfbk
HasSignature(u8) == SubSeq(u8, 1, 4) = <<82, 73, 70, 70>>
HasForm(u8) == SubSeq(u8, 9, 12) = <<115, 102, 98, 107>>

\* C23: parseSF2 throws and returns no bank when the file does not begin with
\* RIFF ("Not RIFF"), when its form type is not sfbk ("Not sfbk"), and when a
\* required table is absent or empty ("Missing pdta table" naming it); a bank
\* is returned only if nothing was thrown, and then the signature and form are
\* right and every required table of the bank has a record.
C23_ParseFails ==
    riff.call = "parseSF2" =>
        LET r == riff.result
        IN  /\ ~HasSignature(riff.u8) => r.threw = "Not RIFF"
            /\ HasSignature(riff.u8) /\ ~HasForm(riff.u8)
                  => r.threw = "Not sfbk (SoundFont2)"
            /\ HasSignature(riff.u8) /\ HasForm(riff.u8)
                  /\ riff.variant \in {"absent", "empty"}
                  => r.threw = Missing[riff.odd]
            /\ r.threw # "" <=> r.bank = Null
            /\ r.bank # Null =>
                  /\ HasSignature(riff.u8) /\ HasForm(riff.u8)
                  /\ riff.variant \notin {"absent", "empty"}
                  /\ \A k \in 1..Len(Required) : r.bank[1].pdta[Required[k]] # <<>>

\* a file with signature and form right whose instrument generator table is
\* empty was refused for that
C23_Witness ==
    /\ riff.call = "parseSF2"
    /\ HasSignature(riff.u8) /\ HasForm(riff.u8)
    /\ riff.odd = "igen" /\ riff.variant = "empty"
    /\ riff.result.threw = "Missing pdta table: igen"
    /\ riff.result.bank = Null

\* C24: of a sub-chunk with declared length L whose data start at byte s the
\* reader takes bytes of [s, s + L) only, and it reads the next chunk header
\* at the 2-byte-aligned position after s + L.
C24_ChunkBounds ==
    \A k \in 1..Len(riff.result.log) :
        LET c == riff.result.log[k]
        IN  /\ c.taken <= c.start + c.size
            /\ c.next = align2(c.start + c.size)

\* ------------------------------------------------------------------ the resolver and the terminal records
\* the zone's sampleID is the index of the last sample header
NamesTerminalSample(bank, g) ==
    Gen.sampleID \in DOMAIN g /\ g[Gen.sampleID] = Len(bank.pdta.shdr) - 1

\* the last preset header as preset, and the last instrument header as a
\* zone's instrument, make the build throw
TerminalHeadersRefused ==
    sf2.call = "buildRegionsForPreset" =>
        LET f == sf2.file
            i == sf2.presetIndex
        IN  /\ i = Len(sf2.bank.pdta.phdr) - 1
                  => sf2.result.threw # "" /\ sf2.result.regions = <<>>
            /\ (/\ ValidPreset(f, i)
                /\ \E z \in 1..Len(f.presets[i + 1]) :
                      ZoneGen(f.presets[i + 1][z], Gen.instrument)
                          = <<Len(sf2.bank.pdta.inst) - 1>>)
                  => sf2.result.threw # "" /\ sf2.result.regions = <<>>

\* C25: no region is made from a terminal record: the last preset header is
\* no preset, the last instrument header is no instrument, and a zone whose
\* sampleID is the index of the last sample header gives no region, so that
\* the regions returned are as many as the zones with valid bounds that name
\* another sample header.
C25_NoTerminalRegion ==
    /\ TerminalHeadersRefused
    /\ Built =>
          LET pairs == Pairs(sf2.file, sf2.presetIndex)
              valid == ValidZones(sf2.bank, pairs)
          IN  Len(sf2.result.regions)
                  = Cardinality({k \in 1..Len(valid) :
                                    ~NamesTerminalSample(sf2.bank, valid[k])})

\* ------------------------------------------------------------------ regions without sample data, played
\* the ids of the voices of a pool
RECURSIVE IdsOf(_)
IdsOf(pool) == IF pool = <<>> THEN {} ELSE {Head(pool).id} \cup IdsOf(Tail(pool))

\* the matching regions that have their sample record and buffer
WholeOf(shapes, matching) == SelectSeq(matching, LAMBDA r : shapes[r] = "whole")

\* C26: a region without a sample record or without its left buffer gives no
\* voice: a noteOn throws nothing and adds voices for the other matching
\* regions only (as many as fit the pool), and process throws nothing.
C26_MalformedSkipped ==
    /\ synth.threw = ""
    /\ synth.call = "noteOn" =>
          LET whole == WholeOf(synth.shapes, synth.matching)
              new == {i \in 1..Len(synth.pool) :
                          synth.pool[i].id \notin IdsOf(synth.before)}
          IN  /\ \A i \in new : synth.shapes[synth.pool[i].region] = "whole"
              /\ Cardinality(new) = Min(Len(whole), maxVoices)

BuffersOf(call) ==
    IF call = Null THEN {}
    ELSE {call[1].result.regions[k].dataL.buffer :
              k \in 1..Len(call[1].result.regions)}

\* the frames of the pool from start up to end
Frames(smpl, range) == SubSeq(smpl.data, range.start + 1, range.end)

BackToInt16(x) == x[1] * Pow2(x[2] + 15)

\* C29: with normalize false, every element of the decoded slice, multiplied
\* by 32768 and rounded, is within 1 of the 16-bit sample it was decoded
\* from, for every sample value from -32768 to 32767.
C29_RoundTrip ==
    (pcm.call = "int16ToFloat32" /\ ~pcm.normalize) =>
        /\ Len(pcm.out) = Len(pcm.i16)
        /\ \A i \in 1..Len(pcm.i16) :
              /\ pcm.out[i][2] >= -15
              /\ Abs(BackToInt16(pcm.out[i]) - pcm.i16[i]) <= 1

\* 32767 was decoded to 32767 * 2^-15
C29_Witness ==
    /\ pcm.call = "int16ToFloat32"
    /\ ~pcm.normalize
    /\ pcm.i16 = <<32767>>
    /\ pcm.out = << <<32767, -15>> >>

\* ------------------------------------------------------------------ the controllers, under every kind of field
\* the field is a finite number
FiniteNumber(field) == field # Null /\ (Len(field) = 1 \/ field[2] > 0)

\* C30: cc7Volume, cc10Pan and cc11Expression are integers in 0..127 in every
\* state; a setControllers message leaves a controller whose field is
\* missing, NaN, infinite or no number as it was; and it leaves the voice
\* pool and the regions as they were.
C30_Controllers ==
    [][/\ cc7Volume' \in 0..127 /\ cc10Pan' \in 0..127 /\ cc11Expression' \in 0..127
       /\ OnSetControllers =>
             /\ ~FiniteNumber(Head(inbox).cc7Volume) => cc7Volume' = cc7Volume
             /\ ~FiniteNumber(Head(inbox).cc10Pan) => cc10Pan' = cc10Pan
             /\ ~FiniteNumber(Head(inbox).cc11Expression)
                   => cc11Expression' = cc11Expression
             /\ voices' = voices
             /\ regions' = regions]_vars

\* with voices in the pool and the volume at 63 from a message with volume
\* 63.5, a message with Infinity as volume, pan -3 and expression 64 has left
\* the volume and set pan to 0 and expression to 64
C30_Witness ==
    /\ last.op = "setControllers"
    /\ last.msg.cc7Volume = <<1, 0>>
    /\ voices # <<>>
    /\ cc7Volume = 63
    /\ cc10Pan = 0
    /\ cc11Expression = 64

\* ------------------------------------------------------------------ the voice loop of a frame
\* the voices of the pool a frame does not drop, in pool order
Kept(pool) == SelectSeq(pool, LAMBDA v : ~(v.finished \/ volEnvStage(v) = "idle"))

\* C31: a frame leaves in the pool exactly the voices that were neither
\* finished nor idle when it started, in their order, and each of them has
\* taken one step of its modulation envelope, one step of its volume
\* envelope and one advance of its cursor at its base rate, and is mixed
\* into the frame; all others are gone, however many are removed.
C31_EachVoiceOnce ==
    [][FrameStep =>
          /\ Len(voices') = Len(Kept(voices))
          /\ last'.out = Ids(Kept(voices))
          /\ \A i \in DOMAIN Kept(voices) :
                LET v == Kept(voices)[i]
                    w == voices'[i]
                IN  /\ w.id = v.id
                    /\ w.modEnv = modEnvNext(v.modEnv)
                    /\ w.volEnv = volEnvNext(v.volEnv)
                    /\ w.rate = v.baseRate
                    /\ w.pos = advancePos([v EXCEPT !.rate = v.baseRate]).pos]_vars

\* a frame that started with two voices has removed the older one, at the
\* lower index, and mixed the newer one
C31_Witness ==
    /\ last.op = "frame"
    /\ last.peak = 2
    /\ Len(voices) = 1
    /\ voices[1].id = nextId - 1
    /\ last.out = {nextId - 1}

\* ------------------------------------------------------------------ the release tail
\* the message being handled releases the voice: a noteOff for its note, an
\* allNotesOff, or a noteOn that matches a region of its nonzero class
Releases(v) ==
    \/ HandledStep("noteOff") /\ v.note = Head(inbox).note
    \/ HandledStep("allNotesOff")
    \/ HandledStep("noteOn") /\ v.exclusiveClass \in MatchedClasses

\* C32: a voice of sampleModes 3 that a noteOff, an allNotesOff or a choke
\* releases has its release-tail flag set by that step; a voice with the flag
\* keeps it as long as it is in the pool, its cursor never decreases, a
\* frame moves the cursor on by the rate without wrapping and flags the voice
\* finished exactly if the cursor is then at end or beyond; a voice of
\* sampleModes 1 is never flagged finished, released or not, and a frame
\* leaves its cursor below loopEnd.
C32_ReleaseTail ==
    [][\A i \in DOMAIN voices :
          LET v == voices[i]
          IN  v.id \in Ids(voices') =>
                LET w == VoiceOf(voices', v.id)
                IN  /\ (v.loopUntilReleaseThenTail /\ Releases(v)) => w.inReleaseTail
                    /\ v.inReleaseTail =>
                          /\ w.inReleaseTail
                          /\ w.pos >= v.pos
                          /\ FrameStep => /\ w.pos = v.pos + v.baseRate
                                          /\ w.finished = (w.pos >= v.end)
                    /\ (v.looping /\ ~v.loopUntilReleaseThenTail) =>
                          /\ ~w.finished
                          /\ FrameStep => w.pos < v.loopEnd]_vars

\* a frame has just flagged a released voice of sampleModes 3 as finished,
\* its cursor beyond the loop at end or after it
C32_Witness ==
    /\ last.op = "frame"
    /\ \E i \in DOMAIN voices :
          /\ voices[i].loopUntilReleaseThenTail
          /\ voices[i].inReleaseTail
          /\ voices[i].finished
          /\ voices[i].pos >= voices[i].end
          /\ voices[i].id \in last.out

\* ------------------------------------------------------------------ the sample read of a frame
\* the frame read the sample at a cursor within the voice's data
ReadInBounds ==
    /\ cursor.at # NaN /\ cursor.at # Infinity
    /\ cursor.v.start <= cursor.at[1] /\ cursor.at[1] < cursor.v.end
    /\ cursor.read[1] \in 0..cursor.v.end /\ cursor.read[2] \in 0..cursor.v.end

\* a voice whose rate is a finite number is read within its data in every
\* frame
FiniteRateReadInBounds ==
    (cursor.call = "process" /\ Len(cursor.v.rate) = 1) => ReadInBounds

\* C33: whenever a frame reads the sample of a voice made from a resolved
\* region, the cursor is a number with start <= cursor < end and the two
\* indexes read are in 0..end, for voices of every sampleModes, released or
\* not.
C33_ReadInBounds == cursor.call = "process" => ReadInBounds

\* ------------------------------------------------------------------ the two envelope implementations
\* int stage of the C envelopes: 0=idle, 1=delay, 2=attack, 3=hold, 4=decay,
\* 5=sustain, 6=release, and the stage of the JavaScript envelopes
StageNames == <<"idle", "delay", "attack", "hold", "decay", "sustain", "release">>

\* C34: after every call, the JavaScript envelope and the C envelope that got
\* the same parameters and the same calls are in the same stage (stage n of
\* the C envelope being the n-th name of the JavaScript envelope), so they
\* leave idle and come back to idle on the same calls; they are at the same
\* level and time as well.
C34_SameStateMachine ==
    /\ \E n \in 0..6 : /\ twins.js.stage = StageNames[n + 1]
                       /\ twins.c.stage = StageNames[n + 1]
    /\ twins.js.level = twins.c.level
    /\ twins.js.t = twins.c.t

\* a next call has just taken both envelopes from release, begun above zero,
\* to idle
C34_Witness ==
    /\ twins.call = "next"
    /\ twins.before.js.stage = "release" /\ twins.before.c.stage = "release"
    /\ twins.before.js.releaseStart \notin {Zero, RInt(0)}
    /\ twins.js.stage = "idle" /\ twins.c.stage = "idle"

\* ------------------------------------------------------------------ loading the DSP module once
\* a call that fails leaves the flag as it was and throws, and a call made
\* while the flag is false starts a load
FailedLoadRetried ==
    /\ loader.last.op = "threw" =>
          /\ loader.dspReady = loader.last.wasReady
          /\ loader.result[loader.last.caller] = Null
    /\ (loader.last.op = "call" /\ ~loader.last.wasReady) =>
          loader.pc[loader.last.caller] = "fetch"

\* C35: over initDSP calls in any interleaving, at most one call of the
\* factory is made that does not fail, and all calls that returned have
\* returned the same module instance; a call that fails leaves the flag as it
\* was and throws, and a call made while the flag is false loads again.
C35_LoadedOnce ==
    /\ loader.factoryCalls - loader.failedLoads <= 1
    /\ \A c, d \in Callers :
          (loader.pc[c] = "returned" /\ loader.pc[d] = "returned")
          => loader.result[c] = loader.result[d]
    /\ FailedLoadRetried

\* ------------------------------------------------------------------ the scheduler of the MIDI worker
\* what a track posted since the last play or seek, leaving out the program
\* events that were not forwarded
Sent(i) == SelectSeq(midi.posted[i], LAMBDA e : e.to # "none")

Advances ==
    /\ riff.result.halts
    /\ \A k \in 1..Len(riff.result.chunks) :
          riff.result.chunks[k].next >= riff.result.chunks[k].at + 8
    /\ \A k \in 1..Len(riff.result.log) :
          riff.result.log[k].next >= riff.result.log[k].start

\* With declared lengths below 2^24 the reader advances and the parse ends,
\* by a bank or by an error: length 0, a length past the end of the file, a
\* LIST shorter than its list type.  A chunk whose length is its data's is
\* passed over, and the lists after it give a bank.
ShortLengthsAdvance ==
    (riff.call = "parseSF2" /\ riff.length[4] = 0) =>
        /\ Advances
        /\ riff.result.threw # "" <=> riff.result.bank = Null
        /\ riff.whole /\ riff.place = "top" /\ riff.length = <<2, 0, 0, 0>>
              => riff.result.bank # Null

\* C37: parseSF2 comes to an end on every file, by a bank or by an error, and
\* every iteration of its top-level loop and of the loops over the sub-chunks
\* of a list moves the read position on by at least 8 bytes, whatever length
\* a chunk declares.
C37_Terminates ==
    riff.call = "parseSF2" =>
        /\ Advances
        /\ riff.result.threw # "" <=> riff.result.bank = Null

\* ------------------------------------------------------------------ the root key of a region
\* the key regionBaseRate takes for the root of a region
RootOf(region) ==
    IF region.overridingRootKey # Null THEN region.overridingRootKey[1]
    ELSE region.originalKey

\* a region made from a zone with an overridingRootKey generator
Overridden(region) == region.overridingRootKey # Null

\* An amount that is a key number, 0 to 127, is the overriding root key of
\* the regions made from the zone, and their root.
KeyAmountsKept ==
    (sf2.call = "buildRegionsForPreset" /\ sf2.rootKey \in 0..127) =>
        \A k \in DOMAIN sf2.result.regions :
            Overridden(sf2.result.regions[k]) =>
                /\ sf2.result.regions[k].overridingRootKey = <<sf2.rootKey>>
                /\ RootOf(sf2.result.regions[k]) \in 0..127

\* C38: every region buildRegionsForPreset returns has no overriding root
\* key or one that is a key number, 0 to 127, whatever the amount of the
\* overridingRootKey generator, -1 included; the root key its playback rate
\* is computed from is in 0..127.
C38_RootKey ==
    sf2.call = "buildRegionsForPreset" =>
        \A k \in DOMAIN sf2.result.regions :
            /\ \/ sf2.result.regions[k].overridingRootKey = Null
               \/ sf2.result.regions[k].overridingRootKey[1] \in 0..127
            /\ RootOf(sf2.result.regions[k]) \in 0..127

====
